---- MODULE Spec2Model ----
(***************************************************************************)
(* Model of the middleware composition engine of plantera                  *)
(* (src/src/core/middleware.ts, first revision in the file, lines 1-838).  *)
(*                                                                         *)
(* The engine builds a graph of effector units.  An effect ("stage") has   *)
(* four units: the call itself ("fx"), "done", "fail" and "finally".  A    *)
(* sample({clock, filter, fn, target}) is a link of that graph.  compose   *)
(* and the combinators add stages, events and links; an invocation fires   *)
(* the first stage and waits on the finally unit of the last one.          *)
(*                                                                         *)
(* Values.  A context is an integer 0..MaxVal (0 is the falsy context,     *)
(* like the number 0 of the README's numeric example); Undef is the        *)
(* `undefined` a stage returns when it returns nothing; the payload        *)
(* {params, error} of a fail unit is FailPayload(params, error).           *)
(***************************************************************************)
EXTENDS Integers, Sequences, FiniteSets, TLC

MaxVal == 2
MaxInv == 2
MaxSend == 3
MaxReq == 2
MaxInputs == 4
QueueN == 2
ThrottleT == 2
MaxTime == 5
MaxFilters == 2

Val == 0..MaxVal
Undef == 0 - 1
Errors == {1}
FailPayload(params, error) == error * (MaxVal + 1) + params
IsFailPayload(v) == v > MaxVal
FailParams(v) == v % (MaxVal + 1)
FailError(v) == v \div (MaxVal + 1)

\* JavaScript truthiness of a stage result: undefined and 0 are falsy,
\* every other context and every {params, error} object is truthy.
Falsy(r) == r = Undef \/ r = 0

\* extractContext: effectDone.result || effectDone.params
ExtractContext(params, result) == IF Falsy(result) THEN params ELSE result

\* The user functions a stage may wrap.  "inc" returns the next context
\* (wrapping to the falsy context 0 after MaxVal) and returns an object it
\* was given unchanged, "void" returns nothing, "throw" throws.
Behaviours == {"inc", "void", "throw"}
Throws(b, v) == b = "throw"
Apply(b, v) ==
    CASE b = "inc" -> IF v \in Val THEN (v + 1) % (MaxVal + 1) ELSE v
      [] b = "void" -> Undef

\* The predicates handed to filter, forkFilter and branch in the scripts.
Pred(name, v) ==
    CASE name = "odd" -> v % 2 = 1
      [] name = "pos" -> v > 0
      [] OTHER -> TRUE

\* An argument of composeFilter: one predicate or an array of predicates.
FilterFn(name) == [arr |-> FALSE, fs |-> <<name>>]
FilterArray(names) == [arr |-> TRUE, fs |-> names]

\* flatten(filters): the arrays among the arguments give their elements.
RECURSIVE FlattenFilters(_)
FlattenFilters(filters) ==
    IF filters = <<>> THEN <<>>
    ELSE Head(filters).fs \o FlattenFilters(Tail(filters))

\* flattenedFilters.every((filter) => filter(payload))
RECURSIVE Every(_, _)
SomeFilter(fs, v) == \E i \in 1..Len(fs) : Pred(fs[i], v)
Every(fs, v) ==
    IF fs = <<>> THEN TRUE
    ELSE IF Pred(Head(fs), v) THEN Every(Tail(fs), v) ELSE FALSE

\* composeFilter(...filters)(payload)
ComposeFilterOf(filters, v) == Every(FlattenFilters(filters), v)

\* composeFilter(predicate)(payload) for the array of predicates the engine
\* is handed as `predicate`.
ComposeFilter(names, v) == ComposeFilterOf(<<FilterArray(names)>>, v)

(***************************************************************************)
(* The unit graph.                                                         *)
(*   stages : effects.  kind "fn" wraps a user function, "pass" is pass(), *)
(*            "wrap" is toEffect(event) (wrapEvent), "branch" is the       *)
(*            dispatcher function that branch() hands to use().            *)
(*   pipes  : composed middlewares.  first/last are the closure variables  *)
(*            of compose; xlast is the `last` property of the handle,      *)
(*            which wrap() copies with Object.assign when compose returns. *)
(*   links  : samples, in creation order.                                  *)
(*   nev    : number of events created so far (step and fail events).      *)
(***************************************************************************)
Stage(kind, label, ev, preds, pa, pb) ==
    [kind |-> kind, label |-> label, ev |-> ev, preds |-> preds, pa |-> pa, pb |-> pb]

Link(sk, sid, filt, fn, tk, tid) ==
    [sk |-> sk, sid |-> sid, filt |-> filt, fn |-> fn, tk |-> tk, tid |-> tid]

\* Middleware-like arguments of compose and the combinators.
Fn(label) == [k |-> "fn", l |-> label, p |-> 0, preds |-> <<>>, pa |-> 0, pb |-> 0]
SyncFn(label) == [k |-> "sync", l |-> label, p |-> 0, preds |-> <<>>, pa |-> 0, pb |-> 0]
Controller(label) == [k |-> "controller", l |-> label, p |-> 0, preds |-> <<>>, pa |-> 0, pb |-> 0]
EventMw(ev) == [k |-> "wrap", l |-> "event", p |-> ev, preds |-> <<>>, pa |-> 0, pb |-> 0]
ComposedMw(p) == [k |-> "pipe", l |-> "composed", p |-> p, preds |-> <<>>, pa |-> 0, pb |-> 0]
PassMw == [k |-> "pass", l |-> "pass", p |-> 0, preds |-> <<>>, pa |-> 0, pb |-> 0]
ArrayMw(items) == [k |-> "array", l |-> "array", p |-> 0, preds |-> <<>>, pa |-> items, pb |-> 0]
\* createPreset(source => source.fork(...ms))
PresetFork(ms) == [k |-> "preset", l |-> "fork", p |-> 0, preds |-> <<>>, pa |-> ms, pb |-> 0]
Dispatcher(preds, pa, pb) == [k |-> "branch", l |-> "dispatch", p |-> 0, preds |-> preds, pa |-> pa, pb |-> pb]

NewStage(g, st) == [g EXCEPT !.stages = Append(@, st)]
AddLink(g, l) == [g EXCEPT !.links = Append(@, l)]

\* pass(): createEffect((context) => context)
PassStage == Stage("pass", "pass", 0, <<>>, 0, 0)

\* extractFirst / extractLast read the `first` / `last` property of a handle.
ExtractFirst(g, u) == IF u.c THEN g.pipes[u.id].first ELSE u.id
ExtractLastAsFirst(g, u) == IF u.c THEN g.pipes[u.id].first ELSE u.id
ExtractLast(g, u) == IF u.c THEN g.pipes[u.id].xlast ELSE u.id

\* linkEffects(from, to): sample({clock: from.done, fn: extractContext, target: to})
LinkEffectsFromFail(g, from, to) == AddLink(g, Link("fail", from, <<>>, "id", "fx", to))
LinkEffects(g, from, to) == AddLink(g, Link("done", from, <<>>, "extract", "fx", to))

\* toEffectOrComposed(middleware): a composed middleware is kept, anything
\* else becomes a new effect.  t is [g, list].
ToEffectOrComposed(t, m) ==
    IF m.k = "pipe"
    THEN [g |-> t.g, list |-> Append(t.list, [c |-> TRUE, id |-> m.p])]
    ELSE [g |-> NewStage(t.g, Stage(m.k, m.l, m.p, m.preds, m.pa, m.pb)),
          list |-> Append(t.list, [c |-> FALSE, id |-> Len(t.g.stages) + 1])]

\* flatten(middlewares): an array among the arguments is replaced by its
\* elements (one level).
RECURSIVE Flatten(_)
Flatten(ms) ==
    IF ms = <<>> THEN <<>>
    ELSE IF Head(ms).k = "array" THEN Head(ms).pa \o Flatten(Tail(ms))
    ELSE <<Head(ms)>> \o Flatten(Tail(ms))

\* flatten(middlewares).map(toEffectOrComposed)
RECURSIVE ToEffectOrComposedList(_, _)
ToEffectOrComposedList(t, ms) ==
    IF ms = <<>> THEN t
    ELSE ToEffectOrComposedList(ToEffectOrComposed(t, Head(ms)), Tail(ms))

\* concatEffectOrComposed: middlewares.reduce((from, to) => linkEffects(...)).
\* The reducer returns what linkEffects returns, the target effect, so from
\* the second pair on `from` is the effect the previous pair was linked to.
RECURSIVE ConcatFrom(_, _, _, _)
ConcatFrom(g, from, list, i) ==
    IF i > Len(list) THEN g
    ELSE ConcatFrom(LinkEffects(g, from, ExtractFirst(g, list[i])),
                    ExtractFirst(g, list[i]), list, i + 1)

ConcatEffectOrComposed(t) ==
    [g |-> ConcatFrom(t.g, ExtractLast(t.g, t.list[1]), t.list, 2), list |-> t.list]

RECURSIVE ComposeG(_, _)
RECURSIVE ForEachFork(_, _, _)
RECURSIVE InterceptG(_, _, _)
RECURSIVE CatchG(_, _, _)
RECURSIVE WireStep(_, _, _, _)
RECURSIVE WireFail(_, _, _, _)

\* compose, step wiring of one list element: an effect's done feeds step, a
\* composed middleware is intercepted with step.
WireStepOne(g, u, step) ==
    IF u.c
    THEN InterceptG(g, u.id, <<EventMw(step)>>).g
    ELSE AddLink(g, Link("done", u.id, <<>>, "extract", "ev", step))

WireStep(g, list, step, i) ==
    IF i > Len(list) THEN g
    ELSE WireStep(WireStepOne(g, list[i], step), list, step, i + 1)

\* compose, fail wiring of one list element: an effect's fail feeds fail, a
\* composed middleware is caught with fail.
WireFailOne(g, u, fail) ==
    IF u.c
    THEN CatchG(g, u.id, <<EventMw(fail)>>).g
    ELSE AddLink(g, Link("fail", u.id, <<>>, "id", "ev", fail))

WireFail(g, list, fail, i) ==
    IF i > Len(list) THEN g
    ELSE WireFail(WireFailOne(g, list[i], fail), list, fail, i + 1)

\* compose, the list: [pass()] for no middlewares, the concatenated list
\* otherwise.
ComposeList(g, ms) ==
    IF ms = <<>>
    THEN [g |-> NewStage(g, PassStage), list |-> <<[c |-> FALSE, id |-> Len(g.stages) + 1]>>]
    ELSE ConcatEffectOrComposed(ToEffectOrComposedList([g |-> g, list |-> <<>>], Flatten(ms)))

\* compose, let first = extractFirst(list[0]), last = extractLast(list.at(-1))
ComposeEdges(r) ==
    [g |-> r.g, list |-> r.list,
     first |-> ExtractFirst(r.g, r.list[1]),
     last |-> ExtractLast(r.g, r.list[Len(r.list)])]

\* compose, const step = createEvent() and its wiring
ComposeStep(r) ==
    [g |-> WireStep([r.g EXCEPT !.nev = @ + 1], r.list, r.g.nev + 1, 1),
     list |-> r.list, first |-> r.first, last |-> r.last, step |-> r.g.nev + 1]

\* compose, const fail = createEvent() and its wiring
ComposeFail(r) ==
    [g |-> WireFail([r.g EXCEPT !.nev = @ + 1], r.list, r.g.nev + 1, 1),
     list |-> r.list, first |-> r.first, last |-> r.last, step |-> r.step,
     fail |-> r.g.nev + 1]

\* compose, const passes = last.map(...), const ends = last.done.map(...):
\* the effect both events are derived from, once, when the pipe is built.
AliasSource(r) == r.last

\* compose, return wrap(instance): the handle copies first and last.
ComposeWrap(r) ==
    [g |-> [r.g EXCEPT !.pipes = Append(@, [first |-> r.first, last |-> r.last,
                                            xlast |-> r.last, step |-> r.step,
                                            fail |-> r.fail,
                                            passes |-> AliasSource(r),
                                            ends |-> AliasSource(r)])],
     ret |-> Len(r.g.pipes) + 1]

\* compose(...middlewares): returns the graph and the id of the new pipe.
ComposeG(g, ms) ==
    ComposeWrap(ComposeFail(ComposeStep(ComposeEdges(ComposeList(g, ms)))))

\* sample({clock: <event>, target: next.first}) for a composed next = n.ret
SampleTo(n, ev) ==
    [g |-> AddLink(n.g, Link("ev", ev, <<>>, "id", "fx", n.g.pipes[n.ret].first)),
     ret |-> n.ret]

\* intercept(...middlewares): sample({clock: this.step, target: next.first})
InterceptG(g, p, ms) == SampleTo(ComposeG(g, ms), g.pipes[p].step)

\* catch(...middlewares): sample({clock: this.fail, target: next.first})
CatchG(g, p, ms) == SampleTo(ComposeG(g, ms), g.pipes[p].fail)

\* on(predicate, ...middlewares):
\* sample({clock: first, filter: composeFilter(predicate), target: next.first})
OnLinkFromDone(n, p, preds) ==
    [g |-> AddLink(n.g, Link("done", n.g.pipes[p].first, preds, "extract", "fx",
                             n.g.pipes[n.ret].first)),
     ret |-> n.ret]
OnLink(n, p, preds) ==
    [g |-> AddLink(n.g, Link("fx", n.g.pipes[p].first, preds, "id", "fx",
                             n.g.pipes[n.ret].first)),
     ret |-> n.ret]
OnG(g, p, preds, ms) == OnLink(ComposeG(g, ms), p, preds)

\* when(predicate, ...middlewares):
\* sample({clock: this.step, filter: composeFilter(predicate), target: next.first})
WhenLinkFeedingStep(n, p, preds) ==
    [g |-> AddLink(AddLink(n.g, Link("ev", n.g.pipes[p].step, preds, "id", "fx",
                                     n.g.pipes[n.ret].first)),
                   Link("done", n.g.pipes[n.ret].last, <<>>, "extract", "ev",
                        n.g.pipes[p].step)),
     ret |-> n.ret]
WhenLink(n, p, preds) ==
    [g |-> AddLink(n.g, Link("ev", n.g.pipes[p].step, preds, "id", "fx",
                             n.g.pipes[n.ret].first)),
     ret |-> n.ret]
WhenG(g, p, preds, ms) == WhenLink(ComposeG(g, ms), p, preds)

\* forward: linkEffects(last, next.first)
ForwardLink(n, p) ==
    [g |-> LinkEffects(n.g, n.g.pipes[p].last, n.g.pipes[n.ret].first), ret |-> n.ret]

\* forward / forwardWithFilter: if (shouldExtend) last = next.last
ForwardExtend(n, p, shouldExtend) ==
    IF shouldExtend
    THEN [g |-> [n.g EXCEPT !.pipes[p].last = n.g.pipes[n.ret].xlast], ret |-> n.ret]
    ELSE n

\* forward / forwardWithFilter: return next.intercept(step)
ForwardIntercept(n, p) ==
    [g |-> InterceptG(n.g, n.ret, <<EventMw(n.g.pipes[p].step)>>).g, ret |-> n.ret]

\* forward(middlewares, shouldExtend): compose, link last -> next.first,
\* optionally advance last, then next.intercept(step).
ForwardG(g, p, ms, shouldExtend) ==
    ForwardIntercept(ForwardExtend(ForwardLink(ComposeG(g, ms), p), p, shouldExtend), p)

\* forEach(items, factory) with factory = (it, instance) => instance.fork(it):
\* one fork per item, in order; r.ret is the handle the last fork returned.
ForEachFork(r, p, items) ==
    IF items = <<>> THEN r
    ELSE ForEachFork(ForwardG(r.g, p, <<Head(items)>>, FALSE), p, Tail(items))

\* isPreset, and the two halves use makes of its flattened arguments
IsPreset(m) == m.k = "preset"
PresetsOf(ms) == SelectSeq(Flatten(ms), IsPreset)
RestOf(ms) == SelectSeq(Flatten(ms), LAMBDA m : ~IsPreset(m))

\* apply(...presets): presets.map((preset) => preset(wrap(this))).at(-1)
\* || wrap(this); a preset made of source => source.fork(...ms) forks ms
\* from the instance it is given.
RECURSIVE ApplyG(_, _, _)
ApplyG(r, p, presets) ==
    IF presets = <<>> THEN r
    ELSE ApplyG(ForwardG(r.g, p, Head(presets).pa, FALSE), p, Tail(presets))

\* use(...middlewares): this.apply(...presets); return forward(rest, true)
UseRestFirst(g, p, ms) ==
    ApplyG(ForwardG(g, p, RestOf(ms), TRUE), p, PresetsOf(ms))
UseG(g, p, ms) ==
    ForwardG(ApplyG([g |-> g, ret |-> p], p, PresetsOf(ms)).g, p, RestOf(ms), TRUE)

\* forwardWithFilter: sample({clock: last.done,
\*     filter: (done) => filter(extractContext(done)), fn: extractContext,
\*     target: next.first})
ForwardFilterLink(n, p, preds) ==
    [g |-> AddLink(n.g, Link("done", n.g.pipes[p].last, preds, "extract",
                             "fx", n.g.pipes[n.ret].first)),
     ret |-> n.ret]

\* forwardWithFilter(predicate, middlewares, shouldExtend): as forward, with
\* the gated link.
ForwardWithFilterUngated(g, p, preds, ms, shouldExtend) == ForwardG(g, p, ms, shouldExtend)
ForwardWithFilterG(g, p, preds, ms, shouldExtend) ==
    ForwardIntercept(
        ForwardExtend(ForwardFilterLink(ComposeG(g, ms), p, preds), p, shouldExtend), p)

\* branch: match = compose(matchMiddlewares), mismatch = compose(mismatchMiddlewares)
BranchJoin(m, n) == [g |-> n.g, m |-> m.ret, n |-> n.ret]
BranchPair(m, nn) == BranchJoin(m, ComposeG(m.g, nn))

\* branch: match.intercept(this.step); mismatch.intercept(this.step)
BranchIntercept(b, p) ==
    [g |-> InterceptG(InterceptG(b.g, b.m, <<EventMw(b.g.pipes[p].step)>>).g,
                      b.n, <<EventMw(b.g.pipes[p].step)>>).g,
     m |-> b.m, n |-> b.n]

\* branch: this.use(ctx => filter(ctx) ? match(ctx) : mismatch(ctx))
BranchUseSwapped(b, p, preds) == ForwardG(b.g, p, <<Dispatcher(preds, b.n, b.m)>>, TRUE)
BranchUse(b, p, preds) == ForwardG(b.g, p, <<Dispatcher(preds, b.m, b.n)>>, TRUE)

\* branch(predicate, match, mismatch): two composed middlewares, both
\* intercepted with this.step, and use() of a function that executes one.
BranchG(g, p, preds, mm, nn) ==
    BranchUse(BranchIntercept(BranchPair(ComposeG(g, mm), nn), p), p, preds)

\* split: split({clock: this.last.done, source: this.last.done, match, cases})
\* with the cases match.first and mismatch.first, each prepended with
\* extractContext.  this.last is the `last` property of the handle.
SplitCases(b, p, preds) ==
    [g |-> AddLink(AddLink(b.g, Link("done", b.g.pipes[p].xlast, preds, "match",
                                     "fx", b.g.pipes[b.m].first)),
                   Link("done", b.g.pipes[p].xlast, preds, "mismatch",
                        "fx", b.g.pipes[b.n].first)),
     ret |-> 0]

\* split(predicate, match, mismatch): two composed middlewares, both
\* intercepted with this.step, and the two cases; nothing is returned.
SplitG(g, p, preds, mm, nn) ==
    SplitCases(BranchIntercept(BranchPair(ComposeG(g, mm), nn), p), p, preds)

(***************************************************************************)
(* Routes.  A path template and a request URL are sequences of tokens, "/" *)
(* being a token of its own; ":id" is a named parameter.  The stages of a  *)
(* route carry the tag of the route as their label, and a decorator keeps  *)
(* its argument in preds (and the nesting flag in pa).                     *)
(***************************************************************************)
Query == [k |-> "query", l |-> "query", p |-> 0, preds |-> <<>>, pa |-> 0, pb |-> 0]
Handler(tag) == [k |-> "handler", l |-> tag, p |-> 0, preds |-> <<>>, pa |-> 0, pb |-> 0]
RouteMethodDecorator(tag, method) ==
    [k |-> "routeMethodDecorator", l |-> tag, p |-> 0, preds |-> <<method>>, pa |-> 0, pb |-> 0]
RoutePathDecorator(tag, template, nesting) ==
    [k |-> "routePathDecorator", l |-> tag, p |-> 0, preds |-> template,
     pa |-> IF nesting THEN 1 ELSE 0, pb |-> 0]
RouteParamsDecorator(tag) ==
    [k |-> "routeParamsDecorator", l |-> tag, p |-> 0, preds |-> <<>>, pa |-> 0, pb |-> 0]

(***************************************************************************)
(* Programs.  A program is the sequence of API calls that builds the       *)
(* system; h is the index (in handles) of the handle the call is made on.  *)
(***************************************************************************)
Op(op, h, preds, ms, ms2) == [op |-> op, h |-> h, preds |-> preds, ms |-> ms, ms2 |-> ms2]

ProgSeq == << Op("compose", 0, <<>>, <<Fn("f"), Fn("g")>>, <<>>) >>
ProgFork == << Op("compose", 0, <<>>, <<>>, <<>>),
               Op("use", 1, <<>>, <<Fn("a")>>, <<>>),
               Op("fork", 1, <<>>, <<Fn("b")>>, <<>>),
               Op("use", 1, <<>>, <<Fn("c")>>, <<>>) >>
ProgFilter == << Op("compose", 0, <<>>, <<Fn("s")>>, <<>>),
                 Op("filter", 1, <<"odd">>, <<Fn("h")>>, <<>>) >>
ProgFilterPos == << Op("compose", 0, <<>>, <<Fn("s")>>, <<>>),
                    Op("filter", 1, <<"pos">>, <<Fn("h")>>, <<>>) >>
ProgBranch == << Op("compose", 0, <<>>, <<Fn("s")>>, <<>>),
                 Op("branch", 1, <<"odd">>, <<Fn("m")>>, <<Fn("n")>>) >>
ProgCatch == << Op("compose", 0, <<>>, <<Fn("f"), Fn("g")>>, <<>>),
                Op("catch", 1, <<>>, <<Fn("logger")>>, <<>>) >>
ProgCatchUse == << Op("compose", 0, <<>>, <<Fn("f")>>, <<>>),
                   Op("catch", 1, <<>>, <<Fn("logger")>>, <<>>),
                   Op("use", 1, <<>>, <<Fn("a")>>, <<>>) >>
ProgCatchFork == << Op("compose", 0, <<>>, <<Fn("f")>>, <<>>),
                    Op("catch", 1, <<>>, <<Fn("logger")>>, <<>>),
                    Op("fork", 1, <<>>, <<Fn("b")>>, <<>>) >>
ProgCatchFilter == << Op("compose", 0, <<>>, <<Fn("f")>>, <<>>),
                      Op("catch", 1, <<>>, <<Fn("logger")>>, <<>>),
                      Op("filter", 1, <<"pos">>, <<Fn("h")>>, <<>>) >>
ProgCatchForkFilter == << Op("compose", 0, <<>>, <<Fn("f")>>, <<>>),
                          Op("catch", 1, <<>>, <<Fn("logger")>>, <<>>),
                          Op("forkFilter", 1, <<"pos">>, <<Fn("b")>>, <<>>) >>

\* n = p.use(a); n.use(b)
ProgUseUse == << Op("compose", 0, <<>>, <<Fn("f")>>, <<>>),
                 Op("use", 1, <<>>, <<Fn("a")>>, <<>>),
                 Op("use", 2, <<>>, <<Fn("b")>>, <<>>) >>

\* createRouter(): decorateWithRouter(compose(query()))
CreateRouter == << Op("compose", 0, <<>>, <<Query>>, <<>>) >>

\* The calls useRoute(method, template, handler) makes for the router of
\* handle r, i being the index of the first of them: route() composes the
\* handler chain, filters it, composes the decorators and forks the handler
\* chain from them; the router forks the route, and the handle of what
\* fork returns becomes the router that is returned.
RouteScript(i, r, tag, method, template) ==
    << Op("compose", 0, <<>>, <<>>, <<>>),
       Op("filter", i, <<"routeMethodPredicate", "routeUrlPredicate">>,
          <<Handler(tag)>>, <<>>),
       Op("compose", 0, <<>>, <<RouteMethodDecorator(tag, method),
                                RoutePathDecorator(tag, template, TRUE),
                                RouteParamsDecorator(tag)>>, <<>>),
       Op("fork", i + 2, <<>>, <<ComposedMw(i)>>, <<>>),
       Op("fork", r, <<>>, <<ComposedMw(i + 2)>>, <<>>) >>

\* The calls router.prefix(template) makes: prefix() composes the path
\* decorator and the router forks it.
PrefixScript(i, r, tag, template) ==
    << Op("compose", 0, <<>>, <<RoutePathDecorator(tag, template, TRUE)>>, <<>>),
       Op("fork", r, <<>>, <<ComposedMw(i)>>, <<>>) >>

\* A registration: op is "route" or "prefix", parent the registration whose
\* returned router it is made on (0 for the router createRouter returned).
Reg(op, parent, tag, method, template) ==
    [op |-> op, parent |-> parent, tag |-> tag, method |-> method, template |-> template]
RegSize(r) == IF r.op = "route" THEN 5 ELSE 2
RECURSIVE RegStart(_, _)
RegStart(regs, k) == IF k = 1 THEN 2 ELSE RegStart(regs, k - 1) + RegSize(regs[k - 1])
RegRouter(regs, k) == IF k = 0 THEN 1 ELSE RegStart(regs, k) + RegSize(regs[k]) - 1
RegScript(regs, k) ==
    IF regs[k].op = "route"
    THEN RouteScript(RegStart(regs, k), RegRouter(regs, regs[k].parent),
                     regs[k].tag, regs[k].method, regs[k].template)
    ELSE PrefixScript(RegStart(regs, k), RegRouter(regs, regs[k].parent),
                      regs[k].tag, regs[k].template)
RECURSIVE RouterScript(_, _)
RouterScript(regs, k) ==
    IF k = 0 THEN CreateRouter ELSE RouterScript(regs, k - 1) \o RegScript(regs, k)

\* a = router.get("/users", hA); b = a.get("/:id", hB);
\* router.route("/items", hC); b.post("/items", hD)
RegsNest == << Reg("route", 0, "hA", "GET", <<"/", "users">>),
               Reg("route", 1, "hB", "GET", <<"/", ":id">>),
               Reg("route", 0, "hC", "UNSPECIFIED", <<"/", "items">>),
               Reg("route", 2, "hD", "POST", <<"/", "items">>) >>
\* p = router.prefix("/users/"); p.get("/:id", hB); router.get("/items", hC);
\* p.post("/", hD)
RegsPrefix == << Reg("prefix", 0, "pA", "", <<"/", "users", "/">>),
                 Reg("route", 1, "hB", "GET", <<"/", ":id">>),
                 Reg("route", 0, "hC", "GET", <<"/", "items">>),
                 Reg("route", 1, "hD", "POST", <<"/">>) >>
\* router.get("/:id", hA); router.get("/items", hC)
RegsSiblings == << Reg("route", 0, "hA", "GET", <<"/", ":id">>),
                   Reg("route", 0, "hC", "GET", <<"/", "items">>) >>
Regs(name) ==
    CASE name = "nest" -> RegsNest
      [] name = "siblings" -> RegsSiblings
      [] OTHER -> RegsPrefix
ProgNest == RouterScript(RegsNest, Len(RegsNest))
ProgPrefix == RouterScript(RegsPrefix, Len(RegsPrefix))
ProgSiblings == RouterScript(RegsSiblings, Len(RegsSiblings))
\* compose(controller(f), controller(g)).catch(pass())
ProgCtl == << Op("compose", 0, <<>>, <<Controller("f"), Controller("g")>>, <<>>),
              Op("catch", 1, <<>>, <<PassMw>>, <<>>) >>
\* compose() with no middleware
ProgEmpty == << Op("compose", 0, <<>>, <<>>, <<>>) >>
\* p = compose(); p.use(a)
ProgEmptyUse == << Op("compose", 0, <<>>, <<>>, <<>>),
                   Op("use", 1, <<>>, <<Fn("a")>>, <<>>) >>
\* p.use(a); p.split(pred, [m], [n])
ProgSplit == << Op("compose", 0, <<>>, <<Fn("s")>>, <<>>),
                Op("use", 1, <<>>, <<Fn("a")>>, <<>>),
                Op("split", 1, <<"odd">>, <<Fn("m")>>, <<Fn("n")>>) >>
\* p.intercept(h) before p is extended
ProgIcpt == << Op("compose", 0, <<>>, <<Fn("f")>>, <<>>),
               Op("intercept", 1, <<>>, <<Fn("h")>>, <<>>),
               Op("use", 1, <<>>, <<Fn("a")>>, <<>>) >>
\* q = compose(a); p = compose(q, c); p.intercept(h)
ProgIcptNested == << Op("compose", 0, <<>>, <<Fn("a")>>, <<>>),
                     Op("compose", 0, <<>>, <<ComposedMw(1), Fn("c")>>, <<>>),
                     Op("intercept", 2, <<>>, <<Fn("h")>>, <<>>) >>

\* q = compose(a); p = compose(q, c), c a function that returns at once
ProgNestSync == << Op("compose", 0, <<>>, <<Fn("a")>>, <<>>),
                   Op("compose", 0, <<>>, <<ComposedMw(1), SyncFn("c")>>, <<>>) >>

\* p = compose(f); p.on(pred, m); p.when(pred, n)
ProgOnWhen == << Op("compose", 0, <<>>, <<Fn("f")>>, <<>>),
                 Op("on", 1, <<"odd">>, <<Fn("m")>>, <<>>),
                 Op("when", 1, <<"odd">>, <<Fn("n")>>, <<>>) >>

\* p = compose(f); p.on(pred, m); p.when(pred, n), m returning at once
ProgOnSyncWhen == << Op("compose", 0, <<>>, <<Fn("f")>>, <<>>),
                     Op("on", 1, <<"odd">>, <<SyncFn("m")>>, <<>>),
                     Op("when", 1, <<"odd">>, <<Fn("n")>>, <<>>) >>
\* preset = createPreset(source => source.fork(b)), b returning at once;
\* p = compose(a); p.use(m, preset)
ProgUsePresetLast == << Op("compose", 0, <<>>, <<Fn("a")>>, <<>>),
                        Op("use", 1, <<>>, <<Fn("m"), PresetFork(<<SyncFn("b")>>)>>, <<>>) >>
\* p = compose(a); p.use(preset, m)
ProgUsePresetFirst == << Op("compose", 0, <<>>, <<Fn("a")>>, <<>>),
                         Op("use", 1, <<>>, <<PresetFork(<<SyncFn("b")>>), Fn("m")>>, <<>>) >>
\* p = compose(a); p.apply(preset); p.use(m)
ProgApplyUse == << Op("compose", 0, <<>>, <<Fn("a")>>, <<>>),
                   Op("apply", 1, <<>>, <<PresetFork(<<SyncFn("b")>>)>>, <<>>),
                   Op("use", 1, <<>>, <<Fn("m")>>, <<>>) >>
\* p = compose(s); p.<method>([odd, pos], h), h returning at once; the
\* mismatch side of branch and split is pass()
GateProgram(method, preds) ==
    << Op("compose", 0, <<>>, <<Fn("s")>>, <<>>),
       Op(method, 1, preds, <<SyncFn("h")>>, <<PassMw>>) >>
\* p = compose(f); p.intercept(h); p.catch(logger)
ProgIcptCatch == << Op("compose", 0, <<>>, <<Fn("f")>>, <<>>),
                    Op("intercept", 1, <<>>, <<Fn("h")>>, <<>>),
                    Op("catch", 1, <<>>, <<Fn("logger")>>, <<>>) >>

\* p = compose(f); p.use(a); o = compose(p, c)
ProgNestExt == << Op("compose", 0, <<>>, <<Fn("f")>>, <<>>),
                  Op("use", 1, <<>>, <<Fn("a")>>, <<>>),
                  Op("compose", 0, <<>>, <<ComposedMw(1), Fn("c")>>, <<>>) >>
\* q = compose(); p = compose(f); p.use(a); q.use(p); q.use(c)
ProgUseNest == << Op("compose", 0, <<>>, <<>>, <<>>),
                  Op("compose", 0, <<>>, <<Fn("f")>>, <<>>),
                  Op("use", 2, <<>>, <<Fn("a")>>, <<>>),
                  Op("use", 1, <<>>, <<ComposedMw(2)>>, <<>>),
                  Op("use", 1, <<>>, <<Fn("c")>>, <<>>) >>

\* compose(a, b, c) and the three ways of nesting it
ProgFlat == << Op("compose", 0, <<>>, <<Fn("a"), Fn("b"), Fn("c")>>, <<>>) >>
ProgNestLeft == << Op("compose", 0, <<>>, <<Fn("a"), Fn("b")>>, <<>>),
                   Op("compose", 0, <<>>, <<ComposedMw(1), Fn("c")>>, <<>>) >>
ProgNestRight == << Op("compose", 0, <<>>, <<Fn("b"), Fn("c")>>, <<>>),
                    Op("compose", 0, <<>>, <<Fn("a"), ComposedMw(1)>>, <<>>) >>
ProgArray == << Op("compose", 0, <<>>, <<Fn("a"), ArrayMw(<<Fn("b"), Fn("c")>>)>>, <<>>) >>

\* p = compose(f); p.on(pred, m); p.filter(pred2, pass())
ProgOn == << Op("compose", 0, <<>>, <<Fn("f")>>, <<>>),
             Op("on", 1, <<"odd">>, <<Fn("m")>>, <<>>),
             Op("filter", 1, <<"pos">>, <<PassMw>>, <<>>) >>

\* p = compose(s); p.forEach([b, c], (it, instance) => instance.fork(it))
ProgForkEach == << Op("compose", 0, <<>>, <<Fn("s")>>, <<>>),
                   Op("forkEach", 1, <<>>, <<Fn("b"), Fn("c")>>, <<>>) >>

ProgramNames == { "seq", "fork", "filter", "filterPos", "branch", "catch",
                  "catchUse", "catchFork", "catchFilter", "catchForkFilter",
                  "useUse", "icpt", "icptNested", "split", "empty", "emptyUse", "ctl",
                  "nestSync" }

Program(name) ==
    CASE name = "seq" -> ProgSeq
      [] name = "fork" -> ProgFork
      [] name = "filter" -> ProgFilter
      [] name = "filterPos" -> ProgFilterPos
      [] name = "branch" -> ProgBranch
      [] name = "catch" -> ProgCatch
      [] name = "catchUse" -> ProgCatchUse
      [] name = "catchFork" -> ProgCatchFork
      [] name = "catchFilter" -> ProgCatchFilter
      [] name = "catchForkFilter" -> ProgCatchForkFilter
      [] name = "useUse" -> ProgUseUse
      [] name = "icpt" -> ProgIcpt
      [] name = "icptNested" -> ProgIcptNested
      [] name = "split" -> ProgSplit
      [] name = "empty" -> ProgEmpty
      [] name = "ctl" -> ProgCtl
      [] name = "nest" -> ProgNest
      [] name = "prefix" -> ProgPrefix
      [] name = "emptyUse" -> ProgEmptyUse
      [] name = "nestSync" -> ProgNestSync
      [] name = "onWhen" -> ProgOnWhen
      [] name = "on" -> ProgOn
      [] name = "forkEach" -> ProgForkEach
      [] name = "siblings" -> ProgSiblings
      [] name = "icptCatch" -> ProgIcptCatch
      [] name = "gateFilter" -> GateProgram("filter", <<"odd", "pos">>)
      [] name = "gateFilterNone" -> GateProgram("filter", <<>>)
      [] name = "gateForkFilter" -> GateProgram("forkFilter", <<"odd", "pos">>)
      [] name = "gateBranch" -> GateProgram("branch", <<"pos", "odd">>)
      [] name = "gateSplit" -> GateProgram("split", <<"odd", "pos">>)
      [] name = "gateOn" -> GateProgram("on", <<"odd", "pos">>)
      [] name = "gateWhen" -> GateProgram("when", <<"pos", "odd">>)
      [] name = "usePresetLast" -> ProgUsePresetLast
      [] name = "usePresetFirst" -> ProgUsePresetFirst
      [] name = "applyUse" -> ProgApplyUse
      [] name = "onSyncWhen" -> ProgOnSyncWhen
      [] name = "nestExt" -> ProgNestExt
      [] name = "useNest" -> ProgUseNest
      [] name = "flat" -> ProgFlat
      [] name = "nestLeft" -> ProgNestLeft
      [] name = "nestRight" -> ProgNestRight
      [] name = "array" -> ProgArray

\* The handle a program invokes: the pipeline it built last, if it built
\* another one to nest.
RootIx(name) ==
    CASE name \in {"icptNested", "nestSync", "nestLeft", "nestRight"} -> 2
      [] name = "nestExt" -> 3
      [] OTHER -> 1

\* The labels of the user functions a program composes.
FnLabels(ms) ==
    {Flatten(ms)[i].l : i \in {j \in 1..Len(Flatten(ms)) :
                                   Flatten(ms)[j].k \in {"fn", "sync", "controller"}}}
PresetLabels(ms) ==
    UNION {FnLabels(Flatten(ms)[i].pa) : i \in {j \in 1..Len(Flatten(ms)) :
                                                  Flatten(ms)[j].k = "preset"}}
OpLabels(o) == FnLabels(o.ms) \cup FnLabels(o.ms2) \cup PresetLabels(o.ms)
ProgLabels(name) == UNION {OpLabels(Program(name)[i]) : i \in 1..Len(Program(name))}

VARIABLES queue, throttle, reqs, res, sends, prog, beh, pc, stages, pipes, links, nev, handles,
          running, watchers, promises, hist, nexec

(***************************************************************************)
(* The response of one request context (createContext).  headersSent and  *)
(* ends belong to the underlying ServerResponse, sent to the context.     *)
(***************************************************************************)
Data == {"string", "object", "other"}
Handlers == {1, 2}

\* createContextResponse(res): Object.assign(res, {sent: false, send})
CreateContextResponse ==
    [sent |-> FALSE, headersSent |-> FALSE, ends |-> 0, statusCode |-> 200,
     contentType |-> "", body |-> <<>>]

\* toContentType(data)
ToContentType(data) ==
    IF data = "string" THEN "text/plain"
    ELSE IF data = "object" THEN "application/json"
    ELSE "application/octet-stream"

\* toResponseBody(data, contentType)
ToResponseBody(data, contentType) ==
    IF contentType = "application/json" THEN <<"JSON.stringify", data>> ELSE <<data>>

\* res.setHeader("Content-Type", contentType)
SetHeader(r, contentType) == [r EXCEPT !.contentType = contentType]

\* res.end(responseBody): the headers are flushed and the response is ended.
End(r, responseBody) ==
    [r EXCEPT !.headersSent = TRUE, !.ends = @ + 1, !.body = responseBody]

\* send(data)
SendUnguarded(r, data) ==
    [End(SetHeader(r, ToContentType(data)),
         ToResponseBody(data, ToContentType(data))) EXCEPT !.sent = TRUE]
SendData(r, data) ==
    IF ~r.headersSent /\ ~r.sent
    THEN [End(SetHeader(r, ToContentType(data)),
              ToResponseBody(data, ToContentType(data))) EXCEPT !.sent = TRUE]
    ELSE [r EXCEPT !.sent = TRUE]

\* controller, the try block after fn has returned a value of the kind
\* `value`: statusCode = 200 and the value is sent, an object as JSON text.
ControllerTry(r, value) ==
    IF ~r.headersSent /\ ~r.sent
    THEN IF value = "object"
         THEN SendData(SetHeader([r EXCEPT !.statusCode = 200], "application/json"),
                       "string")
         ELSE SendData([r EXCEPT !.statusCode = 200], value)
    ELSE r

\* controller, the catch block: statusCode = 400 and the responseError
\* object is sent.
ControllerCatch(r) ==
    IF ~r.headersSent /\ ~r.sent
    THEN SendData(SetHeader([r EXCEPT !.statusCode = 400], "application/json"),
                  "object")
    ELSE r

(***************************************************************************)
(* The concurrency controller of p.queue(QueueN, worker) and of            *)
(* p.throttle(ThrottleT, worker): the inputs that arrived, the pending     *)
(* set, the inputs in flight, and for throttle the clock and the times of  *)
(* the admissions.                                                         *)
(***************************************************************************)
Inputs == 1..MaxInputs
CreateQueue == [arrived |-> 0, pending |-> {}, inflight |-> {}, completed |-> {}]
CreateThrottle == [arrived |-> 0, pending |-> {}, inflight |-> {}, completed |-> {},
                   now |-> 0, admits |-> <<>>]

\* queue: admission is gated by "fewer than n concurrently in flight"
QueueAlwaysAdmits(q) == TRUE
QueueAdmits(q) == Cardinality(q.inflight) < QueueN

\* throttle: admission is gated by "not currently executing", and an
\* admission is followed by a delay of t before the next one is drawn.
ThrottleIgnoresDelay(c) == c.inflight = {}
ThrottleAdmits(c) ==
    /\ c.inflight = {}
    /\ IF c.admits = <<>> THEN TRUE
       ELSE c.now - c.admits[Len(c.admits)] >= ThrottleT

vars == <<prog, beh, pc, stages, pipes, links, nev, handles,
          running, watchers, promises, hist, nexec, res, sends, reqs, queue, throttle>>

G == [stages |-> stages, pipes |-> pipes, links |-> links, nev |-> nev]

\* Nothing is built yet: the program is one of P and the user functions
\* have their behaviours.
InitOf(P) ==
    /\ prog \in P
    /\ beh \in [ProgLabels(prog) -> Behaviours]
    /\ pc = 1
    /\ stages = <<>>
    /\ pipes = <<>>
    /\ links = <<>>
    /\ nev = 0
    /\ handles = <<>>
    /\ running = {}
    /\ watchers = {}
    /\ promises = <<>>
    /\ hist = <<>>
    /\ nexec = <<>>
    /\ res = CreateContextResponse
    /\ sends = <<>>
    /\ reqs = <<>>
    /\ queue = CreateQueue
    /\ throttle = CreateThrottle

Init == InitOf(ProgramNames)

Building == pc <= Len(Program(prog))
CurOp == Program(prog)[pc]

\* A build step replaces the graph by r.g and records the returned handle.
Built(r) ==
    /\ stages' = r.g.stages
    /\ pipes' = r.g.pipes
    /\ links' = r.g.links
    /\ nev' = r.g.nev
    /\ handles' = Append(handles, r.ret)
    /\ pc' = pc + 1
    /\ UNCHANGED <<prog, beh, running, watchers, promises, hist, nexec, res, sends, reqs, queue, throttle>>

\* A composed middleware among the arguments is named by the index of its
\* handle.
Mws(ms) ==
    [i \in DOMAIN ms |->
        IF ms[i].k = "pipe" THEN ComposedMw(handles[ms[i].p]) ELSE ms[i]]

Compose ==
    /\ Building /\ CurOp.op = "compose"
    /\ Built(ComposeG(G, Mws(CurOp.ms)))

Use ==
    /\ Building /\ CurOp.op = "use"
    /\ Built(UseG(G, handles[CurOp.h], Mws(CurOp.ms)))

ApplyPresets ==
    /\ Building /\ CurOp.op = "apply"
    /\ Built(ApplyG([g |-> G, ret |-> handles[CurOp.h]], handles[CurOp.h], CurOp.ms))

\* filter(predicate, ...middlewares): forwardWithFilter(predicate, middlewares, true)
Filter ==
    /\ Building /\ CurOp.op = "filter"
    /\ Built(ForwardWithFilterG(G, handles[CurOp.h], CurOp.preds, CurOp.ms, TRUE))

\* fork(...middlewares): forward(middlewares)
ForkExtending ==
    /\ Building /\ CurOp.op = "fork"
    /\ Built(ForwardG(G, handles[CurOp.h], Mws(CurOp.ms), TRUE))
Fork ==
    /\ Building /\ CurOp.op = "fork"
    /\ Built(ForwardG(G, handles[CurOp.h], Mws(CurOp.ms), FALSE))

\* forkFilter(predicate, ...middlewares): forwardWithFilter(predicate, middlewares)
ForkFilter ==
    /\ Building /\ CurOp.op = "forkFilter"
    /\ Built(ForwardWithFilterG(G, handles[CurOp.h], CurOp.preds, CurOp.ms, FALSE))

Branch ==
    /\ Building /\ CurOp.op = "branch"
    /\ Built(BranchG(G, handles[CurOp.h], CurOp.preds, CurOp.ms, CurOp.ms2))

Catch ==
    /\ Building /\ CurOp.op = "catch"
    /\ Built(CatchG(G, handles[CurOp.h], CurOp.ms))

Split ==
    /\ Building /\ CurOp.op = "split"
    /\ Built(SplitG(G, handles[CurOp.h], CurOp.preds, CurOp.ms, CurOp.ms2))

\* forEach(items, (it, instance) => instance.fork(it)): items.map(...)
ForkEach ==
    /\ Building /\ CurOp.op = "forkEach"
    /\ Built(ForEachFork([g |-> G, ret |-> 0], handles[CurOp.h], CurOp.ms))

Intercept ==
    /\ Building /\ CurOp.op = "intercept"
    /\ Built(InterceptG(G, handles[CurOp.h], CurOp.ms))

On ==
    /\ Building /\ CurOp.op = "on"
    /\ Built(OnG(G, handles[CurOp.h], CurOp.preds, CurOp.ms))

When ==
    /\ Building /\ CurOp.op = "when"
    /\ Built(WhenG(G, handles[CurOp.h], CurOp.preds, CurOp.ms))

(***************************************************************************)
(* Execution.  A unit firing is an item [k, id, a, r, inv]: the unit       *)
(* (k, id), its payload a (for done: params a and result r) and the        *)
(* invocation the firing descends from (inv, used only by the properties). *)
(* Everything effector does synchronously after one firing is one Cascade. *)
(***************************************************************************)
Item(k, id, a, r, inv) == [k |-> k, id |-> id, a |-> a, r |-> r, inv |-> inv]
Entry(t, id, a, r) == [t |-> t, id |-> id, a |-> a, r |-> r]

\* The value a sample's filter and fn see: for a done clock the links of
\* the engine apply extractContext to the {params, result} payload.
LinkValue(it) == IF it.k = "done" THEN ExtractContext(it.a, it.r) ELSE it.a

\* sample({clock, filter, fn, target}): the firings the samples clocked by
\* the unit of `it` deliver, in the order the samples were created.
LinkPasses(l, v) ==
    IF l.fn = "mismatch" THEN ~ComposeFilter(l.filt, v) ELSE ComposeFilter(l.filt, v)

Targets(it) ==
    LET ls == SelectSeq(links, LAMBDA l : /\ l.sk = it.k /\ l.sid = it.id
                                          /\ LinkPasses(l, LinkValue(it)))
    IN [i \in 1..Len(ls) |-> Item(ls[i].tk, ls[i].tid, LinkValue(it), Undef, it.inv)]

Log(rt, inv, e) == [rt EXCEPT !.hist[inv] = Append(@, e)]

\* An effect with an asynchronous handler starts running; wait is TRUE for
\* a branch dispatcher, which settles when the promise of the composed
\* middleware it executed settles.
StartExec(rt, it, wait) ==
    [rt EXCEPT !.nexec[it.inv] = @ + 1,
               !.running = @ \cup {[inv |-> it.inv, n |-> rt.nexec[it.inv] + 1,
                                    s |-> it.id, a |-> it.a, wait |-> wait]}]

RECURSIVE SetToSeq(_)
SetToSeq(S) ==
    IF S = {} THEN <<>>
    ELSE LET e == CHOOSE x \in S : \A y \in S :
                      x.inv < y.inv \/ (x.inv = y.inv /\ x.n <= y.n)
         IN <<e>> \o SetToSeq(S \ {e})

\* watchOnSpot(last.finally, cb), status "done": every watcher of the stage
\* is called once and dropped.  cb resolves the promise of execute with
\* extractContext(result); a dispatcher waiting on that promise completes
\* with the resolved value.
OnFinallyDone(rt, s, value) ==
    LET ws == {w \in rt.watchers : w.s = s}
        woken == {e \in rt.running :
                     [s |-> s, k |-> "exec", inv |-> e.inv, n |-> e.n] \in ws}
    IN [rt |-> [rt EXCEPT
                  !.watchers = @ \ ws,
                  !.running = @ \ woken,
                  !.promises = [k \in DOMAIN @ |->
                      IF /\ [s |-> s, k |-> "promise", inv |-> k, n |-> 0] \in ws
                         /\ @[k].st = "pending"
                      THEN [@[k] EXCEPT !.st = "resolved", !.val = value]
                      ELSE @[k]]],
        items |-> LET sq == SetToSeq(woken)
                  IN [i \in 1..Len(sq) |->
                         Item("done", sq[i].s, sq[i].a, value, sq[i].inv)]]

\* watchOnSpot(last.finally, cb), status "fail": cb throws result.error
\* inside the watcher, where effector's kernel catches and logs it; no
\* promise is settled.  Whether the watcher is dropped before or after cb
\* runs is not fixed, so both are admitted (keep).
OnFinallyFail(rt, s, keep) ==
    IF keep THEN rt
    ELSE [rt EXCEPT !.watchers = {w \in @ : w.s # s}]

\* pass(): createEffect((context) => context)
PassChanged(context) == context + 1
Pass(context) == context

\* The order in which effector's kernel takes the pending firings: events
\* and the done/fail of effects first, the handlers of called effects once
\* no such firing is pending ("run"), the completion of a handler that fired
\* an event itself once everything that firing caused is through ("ret"),
\* and the continuation of an awaited promise last ("then").
Priority(it) ==
    CASE it.k = "run" -> 1
      [] it.k = "ret" -> 2
      [] it.k = "then" -> 3
      [] OTHER -> 0
Pending(q, c) == SelectSeq(q, LAMBDA it : Priority(it) = c)
Push(q, items, c) ==
    IF items = <<>> THEN q
    ELSE IF c = 2
    THEN Pending(q, 0) \o Pending(q, 1) \o items \o Pending(q, 2) \o Pending(q, 3)
    ELSE SelectSeq(q, LAMBDA it : Priority(it) <= c) \o items
             \o SelectSeq(q, LAMBDA it : Priority(it) > c)
As(k, it) == [it EXCEPT !.k = k]
AllAs(k, items) == [i \in 1..Len(items) |-> As(k, items[i])]

\* The handler of an effect made of a function that is not asynchronous:
\* it has returned or thrown when the handler call is over.
RunSync(it, b) ==
    IF Throws(b, it.a) THEN Item("fail", it.id, FailPayload(it.a, 1), Undef, it.inv)
    ELSE Item("done", it.id, it.a, Apply(b, it.a), it.inv)

RECURSIVE Cascade(_, _, _)
Cascade(q, rt, keep) ==
    IF q = <<>> THEN rt
    ELSE
      LET it == Head(q)
          rest == Push(Tail(q), Targets(it), 0)
      IN
      CASE it.k = "ev" ->
             Cascade(rest, Log(rt, it.inv, Entry("ev", it.id, it.a, Undef)), keep)
        [] it.k = "fx" ->
             Cascade(Push(rest, <<As("run", it)>>, 1),
                     Log(rt, it.inv, Entry("call", it.id, it.a, Undef)), keep)
        [] it.k = "run" ->
             LET st == stages[it.id]
             IN (CASE st.kind \in {"fn", "controller"} ->
                       Cascade(rest, StartExec(rt, it, FALSE), keep)
                  [] st.kind = "pass" ->
                       Cascade(Push(rest, <<Item("done", it.id, it.a, Pass(it.a), it.inv)>>, 0),
                               rt, keep)
                  [] st.kind = "sync" ->
                       Cascade(Push(rest, <<RunSync(it, beh[st.label])>>, 0), rt, keep)
                  [] st.kind = "wrap" ->
                       Cascade(Push(Push(rest, <<Item("ev", st.ev, it.a, Undef, it.inv)>>, 0),
                                    <<Item("ret", it.id, it.a, it.a, it.inv)>>, 2),
                               rt, keep)
                  [] st.kind = "branch" ->
                       LET sub == IF ComposeFilter(st.preds, it.a) THEN st.pa ELSE st.pb
                           r2 == StartExec(rt, it, TRUE)
                           r3 == [r2 EXCEPT !.watchers = @ \cup
                                    {[s |-> pipes[sub].last, k |-> "exec",
                                      inv |-> it.inv, n |-> r2.nexec[it.inv]]}]
                       IN Cascade(Push(rest, <<Item("fx", pipes[sub].first, it.a,
                                                    Undef, it.inv)>>, 0),
                                  r3, keep))
        [] it.k \in {"ret", "then"} ->
             Cascade(<<As("done", it)>> \o Tail(q), rt, keep)
        [] it.k = "done" ->
             LET rd == Log(rt, it.inv, Entry("done", it.id, it.a, it.r))
                 fin == OnFinallyDone(rd, it.id, ExtractContext(it.a, it.r))
             IN Cascade(Push(rest, AllAs("then", fin.items), 3), fin.rt, keep)
        [] it.k = "fail" ->
             LET rf == Log(rt, it.inv, Entry("fail", it.id, it.a, Undef))
             IN Cascade(rest, OnFinallyFail(rf, it.id, keep), keep)

RT == [running |-> running, watchers |-> watchers, promises |-> promises,
       hist |-> hist, nexec |-> nexec]

Ran(rt) ==
    /\ running' = rt.running
    /\ watchers' = rt.watchers
    /\ promises' = rt.promises
    /\ hist' = rt.hist
    /\ nexec' = rt.nexec
    /\ UNCHANGED <<prog, beh, pc, stages, pipes, links, nev, handles, res, sends, reqs, queue, throttle>>

Root == handles[RootIx(prog)]

\* execute(first, last, context): a new promise, a watcher on last.finally,
\* then first(context).
Invoke ==
    /\ ~Building
    /\ Len(promises) < MaxInv
    /\ \E x \in Val :
         LET k == Len(promises) + 1
             rt0 == [RT EXCEPT
                       !.promises = Append(@, [st |-> "pending", val |-> Undef, x |-> x]),
                       !.hist = Append(@, <<>>),
                       !.nexec = Append(@, 0),
                       !.watchers = @ \cup {[s |-> pipes[Root].last,
                                             k |-> "promise", inv |-> k, n |-> 0]}]
         IN Ran(Cascade(<<Item("fx", pipes[Root].first, x, Undef, k)>>, rt0, FALSE))

\* The handler of a running stage returns (or its promise resolves).
Return ==
    \E e \in running :
        /\ ~e.wait
        /\ stages[e.s].kind = "fn"
        /\ ~Throws(beh[stages[e.s].label], e.a)
        /\ Ran(Cascade(<<Item("done", e.s, e.a, Apply(beh[stages[e.s].label], e.a), e.inv)>>,
                       [RT EXCEPT !.running = @ \ {e}], FALSE))

\* The handler of a running stage throws (or its promise rejects).
ThrowAlsoCompletes ==
    \E e \in running : \E err \in Errors : \E keep \in BOOLEAN :
        /\ ~e.wait
        /\ stages[e.s].kind = "fn"
        /\ Throws(beh[stages[e.s].label], e.a)
        /\ Ran(Cascade(<<Item("fail", e.s, FailPayload(e.a, err), Undef, e.inv),
                         Item("done", e.s, e.a, Undef, e.inv)>>,
                       [RT EXCEPT !.running = @ \ {e}], keep))
Throw ==
    \E e \in running : \E err \in Errors : \E keep \in BOOLEAN :
        /\ ~e.wait
        /\ stages[e.s].kind = "fn"
        /\ Throws(beh[stages[e.s].label], e.a)
        /\ Ran(Cascade(<<Item("fail", e.s, FailPayload(e.a, err), Undef, e.inv)>>,
                       [RT EXCEPT !.running = @ \ {e}], keep))

\* The handler of a controller effect neither returns a value nor rethrows:
\* the effect is done with undefined whether fn threw or not.
ControllerRethrows(e, threw) ==
    IF threw THEN Item("fail", e.s, FailPayload(e.a, 1), Undef, e.inv)
    ELSE Item("done", e.s, e.a, Undef, e.inv)
ControllerCompletion(e, threw) == Item("done", e.s, e.a, Undef, e.inv)

\* The function of a running controller settles: it returned a value (a
\* string, an object or anything else) or it threw.
ControllerSettle ==
    \E e \in running : \E value \in Data :
        /\ stages[e.s].kind = "controller"
        /\ LET threw == Throws(beh[stages[e.s].label], e.a)
               answers == ~res.headersSent /\ ~res.sent
               rt0 == [RT EXCEPT !.running = @ \ {e}]
               rt1 == IF answers
                      THEN Log(rt0, e.inv, Entry("answer", e.s, e.a,
                                                 IF threw THEN 400 ELSE 200))
                      ELSE rt0
               rt == Cascade(<<ControllerCompletion(e, threw)>>, rt1, FALSE)
           IN /\ res' = IF threw THEN ControllerCatch(res) ELSE ControllerTry(res, value)
              /\ sends' = IF answers
                          THEN Append(sends, [by |-> 0,
                                              data |-> IF threw THEN "object"
                                                       ELSE IF value = "object"
                                                       THEN "string" ELSE value,
                                              headersSent |-> res.headersSent,
                                              ended |-> res'.ends > res.ends])
                          ELSE sends
              /\ running' = rt.running
              /\ watchers' = rt.watchers
              /\ promises' = rt.promises
              /\ hist' = rt.hist
              /\ nexec' = rt.nexec
              /\ UNCHANGED <<prog, beh, pc, stages, pipes, links, nev, handles, reqs, queue, throttle>>

Next ==
    \/ Compose
    \/ Use
    \/ Filter
    \/ Fork
    \/ ForkFilter
    \/ Branch
    \/ Catch
    \/ Intercept
    \/ Split
    \/ Invoke
    \/ Return
    \/ Throw
    \/ ControllerSettle

Spec == Init /\ [][Next]_vars

\* The programs that gate an extension with filter, and their calls.
FilterProgs == {"filter", "filterPos"}
NextFilter ==
    \/ Compose
    \/ Filter
    \/ Invoke
    \/ Return
    \/ Throw
SpecFilter == InitOf(FilterProgs) /\ [][NextFilter]_vars

\* The program that branches, and its calls.
BranchProgs == {"branch"}
NextBranch ==
    \/ Compose
    \/ Branch
    \/ Invoke
    \/ Return
    \/ Throw
SpecBranch == InitOf(BranchProgs) /\ [][NextBranch]_vars

\* The programs whose chain is built by compose, use, filter and branch,
\* and their calls.
ChainProgs == {"seq", "filter", "filterPos", "branch", "catchUse"}
NextChain ==
    \/ Compose
    \/ Use
    \/ Filter
    \/ Branch
    \/ Catch
    \/ Invoke
    \/ Return
    \/ Throw
SpecChain == InitOf(ChainProgs) /\ [][NextChain]_vars

\* The programs that start from compose() with no middleware, and their
\* calls.
EmptyProgs == {"empty", "emptyUse"}
NextEmpty ==
    \/ Compose
    \/ Use
    \/ Invoke
    \/ Return
    \/ Throw
SpecEmpty == InitOf(EmptyProgs) /\ [][NextEmpty]_vars

\* The programs that nest a composed middleware in another, and their calls.
NestProgs == {"nestExt", "useNest"}
NextNest ==
    \/ Compose
    \/ Use
    \/ Invoke
    \/ Return
    \/ Throw
SpecNest == InitOf(NestProgs) /\ [][NextNest]_vars

\* compose(a, b, c) and the programs that nest a part of it, and their calls.
NestShapes == {"flat", "nestLeft", "nestRight", "array"}
NextShapes ==
    \/ Compose
    \/ Invoke
    \/ Return
    \/ Throw
SpecShapes == InitOf(NestShapes) /\ [][NextShapes]_vars

\* The program that forks each unit of a list, and its calls.
ForkEachProgs == {"forkEach"}
NextForkEach ==
    \/ Compose
    \/ ForkEach
    \/ Invoke
    \/ Return
    \/ Throw
SpecForkEach == InitOf(ForkEachProgs) /\ [][NextForkEach]_vars

\* The program that attaches a handler with on, and its calls.
OnProgs == {"on"}
NextOn ==
    \/ Compose
    \/ On
    \/ Filter
    \/ Invoke
    \/ Return
    \/ Throw
SpecOn == InitOf(OnProgs) /\ [][NextOn]_vars

\* The programs that call each combinator on a pipeline, and their calls.
FrameProgs == {"fork", "filter", "branch", "catchForkFilter", "split", "icpt", "onWhen"}
NextFrame ==
    \/ Compose
    \/ Use
    \/ Filter
    \/ Fork
    \/ ForkFilter
    \/ Branch
    \/ Catch
    \/ Split
    \/ Intercept
    \/ On
    \/ When
    \/ Invoke
SpecFrame == InitOf(FrameProgs) /\ [][NextFrame]_vars

\* A handler calls context.res.send(data).
Send ==
    /\ Len(sends) < MaxSend
    /\ \E h \in Handlers, data \in Data :
           /\ res' = SendData(res, data)
           /\ sends' = Append(sends, [by |-> h, data |-> data,
                                       headersSent |-> res.headersSent,
                                       ended |-> res'.ends > res.ends])
    /\ UNCHANGED <<prog, beh, pc, stages, pipes, links, nev, handles,
                   running, watchers, promises, hist, nexec, reqs, queue, throttle>>

\* A handler flushes the headers itself through the ServerResponse API.
WriteHead ==
    /\ ~res.headersSent
    /\ res' = [res EXCEPT !.headersSent = TRUE]
    /\ UNCHANGED <<prog, beh, pc, stages, pipes, links, nev, handles,
                   running, watchers, promises, hist, nexec, sends, reqs, queue, throttle>>

(***************************************************************************)
(* The router.  A request is a method and a URL; its context carries the   *)
(* route metadata the decorators write.  The stages of a route are         *)
(* synchronous, so a request is propagated through the graph in one step.  *)
(***************************************************************************)
ReqMethods == {"GET", "POST"}
Urls == { <<"/", "users">>, <<"/", "users", "/">>, <<"/", "users", "/", "7">>,
          <<"/", "items">>, <<"/", "7">>, <<"/", "users", "/", "7", "/", "items">> }

\* createContext(req, res): route = {method: "", path: ""}; req.params = {}
\* is a field of the request object, which every copy of the context shares.
CreateContext(method, url) ==
    [method |-> method, url |-> url, route |-> [method |-> "", path |-> <<>>]]
CreateContextRequest == <<>>

\* trimEnd(path, "/")
RECURSIVE TrimEnd(_)
TrimEnd(t) ==
    IF t # <<>> /\ t[Len(t)] = "/" THEN TrimEnd(SubSeq(t, 1, Len(t) - 1)) ELSE t

\* pathToRegexp(template).exec(url) !== null: literal tokens are equal, a
\* named parameter stands for one token that is not "/", and trailing
\* delimiters are optional.
IsParam(tok) == tok = ":id"
TokensMatch(t, u) ==
    /\ Len(t) = Len(u)
    /\ \A i \in 1..Len(t) : t[i] = u[i] \/ (IsParam(t[i]) /\ u[i] # "/")
PathToRegexpExec(template, url) == TokensMatch(TrimEnd(template), TrimEnd(url))

\* match(template)(url).params, {} when the URL does not match
MatchParams(template, url) ==
    IF PathToRegexpExec(template, url)
    THEN SelectSeq([i \in 1..Len(TrimEnd(template)) |->
                        IF IsParam(template[i]) THEN url[i] ELSE "/"],
                   LAMBDA tok : tok # "/")
    ELSE <<>>

\* routeMethodPredicate and routeUrlPredicate
RouteMethodAny(ctx) == TRUE
RouteMethodPredicate(ctx) ==
    \/ ctx.route.method = ""
    \/ ctx.route.method = "UNSPECIFIED"
    \/ ctx.method = ctx.route.method
RouteUrlPredicate(ctx) ==
    IF ctx.route.path = <<>> THEN TRUE ELSE PathToRegexpExec(ctx.route.path, ctx.url)
RoutePred(name, ctx) ==
    CASE name = "routeMethodPredicate" -> RouteMethodPredicate(ctx)
      [] name = "routeUrlPredicate" -> RouteUrlPredicate(ctx)
RouteComposeFilter(names, ctx) == \A i \in 1..Len(names) : RoutePred(names[i], ctx)

\* The context a stage of the router completes with: the decorators return
\* a decorated copy, every other stage the context it was given.
StageContextFlat(st, ctx) ==
    CASE st.kind = "routeMethodDecorator" -> [ctx EXCEPT !.route.method = st.preds[1]]
      [] st.kind = "routePathDecorator" -> [ctx EXCEPT !.route.path = st.preds]
      [] OTHER -> ctx
StageContext(st, ctx) ==
    CASE st.kind = "routeMethodDecorator" -> [ctx EXCEPT !.route.method = st.preds[1]]
      [] st.kind = "routePathDecorator" ->
             [ctx EXCEPT !.route.path =
                  (IF st.pa = 1 THEN TrimEnd(ctx.route.path) ELSE <<>>) \o st.preds]
      [] OTHER -> ctx

\* routeParamsDecorator: context.req.params = parsed ? parsed.params : {}
\* on the request object; every other stage leaves req.params as it is.
RouteParamsWrite(st, ctx, params) ==
    IF st.kind = "routeParamsDecorator" THEN MatchParams(ctx.route.path, ctx.url)
    ELSE params

\* The stages a context reaches from the stages of q along the links
\* clocked by done, as calls [id, ctx, params] in the order they are made,
\* params being req.params when the function of the stage is called.
RECURSIVE RouteCascade(_, _, _)
RouteCascade(q, calls, params) ==
    IF q = <<>> THEN calls
    ELSE LET it == Head(q)
             out == StageContext(stages[it.id], it.ctx)
             ls == SelectSeq(links, LAMBDA l : /\ l.sk = "done" /\ l.sid = it.id
                                               /\ l.tk = "fx"
                                               /\ RouteComposeFilter(l.filt, out))
         IN RouteCascade(Tail(q) \o [i \in 1..Len(ls) |-> [id |-> ls[i].tid, ctx |-> out]],
                         Append(calls, [id |-> it.id, ctx |-> it.ctx, params |-> params]),
                         RouteParamsWrite(stages[it.id], it.ctx, params))

\* router.callback(req, res): middleware(createContext(req, res))
Request ==
    /\ ~Building
    /\ Len(reqs) < MaxReq
    /\ \E method \in ReqMethods, url \in Urls :
           reqs' = Append(reqs,
                      [method |-> method, url |-> url,
                       calls |-> RouteCascade(<<[id |-> pipes[Root].first,
                                                 ctx |-> CreateContext(method, url)]>>,
                                              <<>>, CreateContextRequest)])
    /\ UNCHANGED <<prog, beh, pc, stages, pipes, links, nev, handles,
                   running, watchers, promises, hist, nexec, res, sends, queue, throttle>>

\* The routers of the scripts and the requests they receive.
RouterProgs == {"nest", "prefix"}
NextRouter ==
    \/ Compose
    \/ Filter
    \/ Fork
    \/ Request
SpecRouter == InitOf(RouterProgs) /\ [][NextRouter]_vars

\* The programs that attach lifecycle handlers, and their calls.
LifecycleProgs == {"onSyncWhen", "icptCatch"}
NextLifecycle ==
    \/ Compose
    \/ Intercept
    \/ Catch
    \/ On
    \/ When
    \/ Invoke
    \/ Return
    \/ Throw
SpecLifecycle == InitOf(LifecycleProgs) /\ [][NextLifecycle]_vars

\* The programs that register a preset, and their calls.
PresetProgs == {"usePresetLast", "usePresetFirst", "applyUse"}
NextPreset ==
    \/ Compose
    \/ Use
    \/ ApplyPresets
    \/ Invoke
    \/ Return
    \/ Throw
SpecPreset == InitOf(PresetProgs) /\ [][NextPreset]_vars

\* The programs that gate a handler by a list of predicates, and their calls.
GateProgs == {"gateFilter", "gateFilterNone", "gateForkFilter", "gateBranch",
              "gateSplit", "gateOn", "gateWhen"}
NextGate ==
    \/ Compose
    \/ Filter
    \/ ForkFilter
    \/ Branch
    \/ Split
    \/ On
    \/ When
    \/ Invoke
    \/ Return
    \/ Throw
SpecGate == InitOf(GateProgs) /\ [][NextGate]_vars

\* A router with two sibling routes and the requests it receives.
SiblingProgs == {"siblings"}
NextSiblings ==
    \/ Compose
    \/ Filter
    \/ Fork
    \/ Request
SpecSiblings == InitOf(SiblingProgs) /\ [][NextSiblings]_vars

\* An input reaches the queue and joins the pending set.
QueueInput ==
    /\ queue.arrived < MaxInputs
    /\ queue' = [queue EXCEPT !.arrived = @ + 1, !.pending = @ \cup {queue.arrived + 1}]
    /\ UNCHANGED <<prog, beh, pc, stages, pipes, links, nev, handles, running, watchers,
                   promises, hist, nexec, res, sends, reqs, throttle>>

\* A pending input is admitted: worker starts on it.
QueueAdmit ==
    /\ QueueAdmits(queue)
    /\ \E i \in queue.pending :
           queue' = [queue EXCEPT !.pending = @ \ {i}, !.inflight = @ \cup {i}]
    /\ UNCHANGED <<prog, beh, pc, stages, pipes, links, nev, handles, running, watchers,
                   promises, hist, nexec, res, sends, reqs, throttle>>

\* An execution of worker completes.
QueueComplete ==
    /\ \E i \in queue.inflight :
           queue' = [queue EXCEPT !.inflight = @ \ {i}, !.completed = @ \cup {i}]
    /\ UNCHANGED <<prog, beh, pc, stages, pipes, links, nev, handles, running, watchers,
                   promises, hist, nexec, res, sends, reqs, throttle>>

NextQueue ==
    \/ QueueInput
    \/ QueueAdmit
    \/ QueueComplete
SpecQueue == InitOf({"empty"}) /\ [][NextQueue]_vars

\* An input reaches the throttle and joins the pending set.
ThrottleInput ==
    /\ throttle.arrived < MaxInputs
    /\ throttle' = [throttle EXCEPT !.arrived = @ + 1,
                                    !.pending = @ \cup {throttle.arrived + 1}]
    /\ UNCHANGED <<prog, beh, pc, stages, pipes, links, nev, handles, running, watchers,
                   promises, hist, nexec, res, sends, reqs, queue>>

\* A pending input is admitted at the current time: worker starts on it.
ThrottleAdmit ==
    /\ ThrottleAdmits(throttle)
    /\ \E i \in throttle.pending :
           throttle' = [throttle EXCEPT !.pending = @ \ {i}, !.inflight = {i},
                                        !.admits = Append(@, throttle.now)]
    /\ UNCHANGED <<prog, beh, pc, stages, pipes, links, nev, handles, running, watchers,
                   promises, hist, nexec, res, sends, reqs, queue>>

\* The execution of worker completes.
ThrottleComplete ==
    /\ \E i \in throttle.inflight :
           throttle' = [throttle EXCEPT !.inflight = {}, !.completed = @ \cup {i}]
    /\ UNCHANGED <<prog, beh, pc, stages, pipes, links, nev, handles, running, watchers,
                   promises, hist, nexec, res, sends, reqs, queue>>

\* One time unit passes.
Tick ==
    /\ throttle.now < MaxTime
    /\ throttle' = [throttle EXCEPT !.now = @ + 1]
    /\ UNCHANGED <<prog, beh, pc, stages, pipes, links, nev, handles, running, watchers,
                   promises, hist, nexec, res, sends, reqs, queue>>

NextThrottle ==
    \/ ThrottleInput
    \/ ThrottleAdmit
    \/ ThrottleComplete
    \/ Tick
SpecThrottle == InitOf({"empty"}) /\ [][NextThrottle]_vars

\* A chain of two controllers with a catch handler, on one request context
\* whose headers another handler may flush.
CtlProgs == {"ctl"}
NextCtl ==
    \/ Compose
    \/ Catch
    \/ Invoke
    \/ ControllerSettle
    \/ WriteHead
SpecCtl == InitOf(CtlProgs) /\ [][NextCtl]_vars

\* One request context and the handlers that answer it.
NextSend ==
    \/ Send
    \/ WriteHead
SpecSend == InitOf({"empty"}) /\ [][NextSend]_vars

(***************************************************************************)
(* Vocabulary of the properties.                                           *)
(***************************************************************************)
Invocations == DOMAIN promises
StageIds == 1..Len(stages)
HasStage(label) == \E s \in StageIds : stages[s].label = label
StageOf(label) == CHOOSE s \in StageIds : stages[s].label = label

\* Positions of invocation k's history where unit t of stage s fired.
At(k, t, s) == {i \in 1..Len(hist[k]) : hist[k][i].t = t /\ hist[k][i].id = s}
Calls(k, label) == Cardinality(At(k, "call", StageOf(label)))
Dones(k, label) == Cardinality(At(k, "done", StageOf(label)))
Fails(k, label) == Cardinality(At(k, "fail", StageOf(label)))

\* Glossary: a stage's returned value or, if it returned nothing, its input.
EffectiveOutput(params, result) == IF result = Undef THEN params ELSE result

\* What the user function labelled l computes from v (it does not throw).
Returns(l) == beh[l] # "throw"
F(l, v) == Apply(beh[l], v)
Eff(l, v) == EffectiveOutput(v, F(l, v))

Resolved(k) == promises[k].st = "resolved"

\* C1 (as claimed): in compose(f, g), if f(x) and g(f(x)) are defined
\* values, falsy ones included, the invocation with x resolves with g(f(x)).
\* Stated for the runs with a single invocation, where no other invocation
\* of the pipeline can interfere.
C1_CompositionLaw ==
    (prog = "seq" /\ Len(promises) = 1 /\ Returns("f") /\ Returns("g")) =>
        LET x == promises[1].x
            y == F("f", x)
        IN (y # Undef /\ F("g", y) # Undef /\ Resolved(1))
               => promises[1].val = F("g", y)

\* C2 (as claimed): pass-through.  In compose(f, g) with f returning
\* nothing, g is invoked with the invocation's input x; and when the last
\* stage returned nothing in an invocation, that invocation is resolved with
\* the input the last stage had in it.
C2_PassThrough ==
    prog = "seq" =>
        \A k \in Invocations :
            /\ (Returns("f") /\ F("f", promises[k].x) = Undef) =>
                   \A i \in At(k, "call", StageOf("g")) : hist[k][i].a = promises[k].x
            /\ \A i \in At(k, "done", StageOf("g")) :
                   hist[k][i].r = Undef =>
                       (Resolved(k) /\ promises[k].val = hist[k][i].a)

\* C3 (as claimed): fork isolation.  After p.use(a); p.fork(b); p.use(c) an
\* invocation with x resolves with c's output computed from a's effective
\* output, whatever b does, and is resolved as soon as c has completed.
\* Stated for the runs with a single invocation.
C3_ForkIsolation ==
    (prog = "fork" /\ Len(promises) = 1 /\ Returns("a") /\ Returns("c")) =>
        /\ Resolved(1) => promises[1].val = Eff("c", Eff("a", promises[1].x))
        /\ Dones(1, "c") > 0 => Resolved(1)

FilterPreds == Program(prog)[2].preds

\* C4 (as claimed): filter gating.  For p.filter(pred, h), h is invoked
\* zero times in an invocation when pred is false on the effective output of
\* the stage before the filter, and exactly once when pred is true on it.
C4_FilterGating ==
    prog \in FilterProgs =>
        \A k \in Invocations : \A i \in At(k, "done", StageOf("s")) :
            IF ComposeFilter(FilterPreds, EffectiveOutput(hist[k][i].a, hist[k][i].r))
            THEN Calls(k, "h") = 1
            ELSE Calls(k, "h") = 0

\* Nothing of invocation k is running any more.
Quiescent(k) == \A e \in running : e.inv # k

\* The value that reached the filter in invocation k, if the stage before
\* the filter has completed in it.
ReachedFilter(k) == At(k, "done", StageOf("s")) # {}
PreFilterValue(k) ==
    LET i == CHOOSE j \in At(k, "done", StageOf("s")) : TRUE
    IN ExtractContext(hist[k][i].a, hist[k][i].r)
Suppressed(k) == ReachedFilter(k) /\ ~ComposeFilter(FilterPreds, PreFilterValue(k))

\* C5 (as claimed): for p.filter(pred, h) and an invocation on whose
\* pre-filter value pred is false, the invocation yields a result equal to
\* the pre-filter value (once nothing of it is running any more).
C5_SuppressedYieldsPreFilterValue ==
    prog \in FilterProgs =>
        \A k \in Invocations :
            (Suppressed(k) /\ Quiescent(k)) =>
                (Resolved(k) /\ promises[k].val = PreFilterValue(k))

\* C5 (amended): for p.filter(pred, h) and an invocation on whose
\* pre-filter value pred is false, h is not triggered and the invocation
\* yields no result of its own: its promise is settled only by the exit
\* stage h completing in another invocation, with that invocation's output.
C5_SuppressedYieldsNoResult ==
    prog \in FilterProgs =>
        \A k \in Invocations :
            Suppressed(k) =>
                /\ Calls(k, "h") = 0
                /\ promises[k].st \in {"pending", "resolved"}
                /\ Resolved(k) =>
                       \E j \in Invocations \ {k} : \E m \in At(j, "done", StageOf("h")) :
                           promises[k].val = ExtractContext(hist[j][m].a, hist[j][m].r)

\* C5 witness: a suppressed invocation has come to rest with its promise pending.
C5_Witness ==
    /\ prog \in FilterProgs
    /\ \E k \in Invocations :
           Suppressed(k) /\ Quiescent(k) /\ promises[k].st = "pending"

\* C6: branch exclusivity.  For p.branch(pred, [m], [n]), in every
\* invocation that reaches the branch exactly one of m and n is executed:
\* m when pred holds on the value the branch received, n otherwise.
C6_BranchExclusive ==
    prog \in BranchProgs =>
        \A k \in Invocations :
            /\ \A i \in At(k, "call", StageOf("dispatch")) :
                   /\ Calls(k, "m") + Calls(k, "n") = 1
                   /\ Calls(k, "m") = 1 <=> ComposeFilter(<<"odd">>, hist[k][i].a)
                   /\ \A j \in At(k, "call", StageOf("m")) \cup At(k, "call", StageOf("n")) :
                          hist[k][j].a = hist[k][i].a
            /\ At(k, "call", StageOf("dispatch")) = {} =>
                   Calls(k, "m") + Calls(k, "n") = 0

\* C6 witness: both sides of the branch have been taken, each alone.
C6_Witness ==
    /\ prog \in BranchProgs
    /\ \E k \in Invocations : Calls(k, "m") = 1 /\ Calls(k, "n") = 0
    /\ \E k \in Invocations : Calls(k, "n") = 1 /\ Calls(k, "m") = 0

\* The user stages of the system of the invoked pipeline p: everything the
\* program attached except the handlers of catch.
SystemStages == {s \in StageIds : stages[s].kind # "wrap" /\ stages[s].label # "logger"}
FailsIn(k) == {i \in 1..Len(hist[k]) : hist[k][i].t = "fail" /\ hist[k][i].id \in SystemStages}

\* C7 (as claimed): failure routing.  When a stage of the pipeline fails in
\* an invocation, the handler attached with catch(logger) is triggered
\* exactly once for that invocation, with the failing stage's input and the
\* error.
C7_FailureRouting ==
    HasStage("logger") =>
        \A k \in Invocations : \A i \in FailsIn(k) :
            /\ Calls(k, "logger") = 1
            /\ \A j \in At(k, "call", StageOf("logger")) : hist[k][j].a = hist[k][i].a

\* Positions of invocation k's history where event e fired.
EventAt(k, e) == {i \in 1..Len(hist[k]) : hist[k][i].t = "ev" /\ hist[k][i].id = e}

\* C9 (as claimed): the fail signal of p fires, and the catch handler is
\* triggered, with {input, error} whenever a constituent stage of p fails,
\* the stages attached by use, filter, fork and forkFilter included.
C9_AggregateFail ==
    HasStage("logger") =>
        \A k \in Invocations : \A i \in FailsIn(k) :
            /\ \E j \in EventAt(k, pipes[Root].fail) : hist[k][j].a = hist[k][i].a
            /\ \E j \in At(k, "call", StageOf("logger")) : hist[k][j].a = hist[k][i].a

\* The stages of the chain of p from entry to exit, by label.
ChainLabels ==
    CASE prog = "seq" -> {"f", "g"}
      [] prog = "fork" -> {"a", "c"}
      [] prog \in FilterProgs -> {"s", "h"}
      [] prog = "branch" -> {"s"}
      [] prog = "catch" -> {"f", "g"}
      [] prog = "catchUse" -> {"f", "a"}
      [] prog = "catchFilter" -> {"f", "h"}
      [] OTHER -> {"f"}

\* C10 (as claimed): if a stage on the chain from entry to exit fails in an
\* invocation, the promise of that invocation is rejected with the error.
C10_FailureRejects ==
    \A k \in Invocations : \A l \in ChainLabels :
        \A i \in At(k, "fail", StageOf(l)) :
            /\ promises[k].st = "rejected"
            /\ promises[k].val = FailError(hist[k][i].a)

\* Pairs <<u, v>> of stage labels with v linked after u on the success path.
SuccessPairs ==
    CASE prog = "seq" -> {<<"f", "g">>}
      [] prog = "fork" -> {<<"pass", "a">>, <<"a", "b">>, <<"a", "c">>, <<"pass", "c">>}
      [] prog \in FilterProgs -> {<<"s", "h">>}
      [] prog = "branch" -> {<<"s", "dispatch">>, <<"s", "m">>, <<"s", "n">>}
      [] prog = "catch" -> {<<"f", "g">>}
      [] prog = "catchUse" -> {<<"f", "a">>}
      [] prog = "catchFork" -> {<<"f", "b">>}
      [] prog = "catchFilter" -> {<<"f", "h">>}
      [] prog = "catchForkFilter" -> {<<"f", "b">>}
      [] prog = "useUse" -> {<<"f", "a">>, <<"a", "b">>, <<"f", "b">>}
      [] prog = "icpt" -> {<<"f", "a">>}
      [] prog = "icptNested" -> {<<"a", "c">>}
      [] prog = "split" -> {<<"s", "a">>, <<"s", "m">>, <<"s", "n">>}
      [] OTHER -> {}

DonesIn(k) == {i \in 1..Len(hist[k]) : hist[k][i].t = "done" /\ hist[k][i].id \in SystemStages}

\* C8: failures never continue down the success path.  When a stage fails
\* in an invocation, no stage linked after it on the success path is
\* executed for that invocation, and the step signal of the pipeline fires
\* only for the stages that completed successfully, never for a failing one.
C8_NoSuccessAfterFailure ==
    ~Building =>
        \A k \in Invocations :
            /\ \A pr \in SuccessPairs :
                   (HasStage(pr[1]) /\ HasStage(pr[2]) /\ Fails(k, pr[1]) > 0)
                       => Calls(k, pr[2]) = 0
            /\ Cardinality(EventAt(k, pipes[Root].step)) = Cardinality(DonesIn(k))
            /\ \A j \in EventAt(k, pipes[Root].step) : ~IsFailPayload(hist[k][j].a)

\* C8 witness: the first stage of compose(f, g) failed and the invocation
\* has come to rest.
C8_Witness ==
    /\ prog = "seq"
    /\ \E k \in Invocations : Fails(k, "f") > 0 /\ Calls(k, "g") = 0 /\ Quiescent(k)

\* C11 (as claimed): a suppressed invocation never resolves.  For
\* p.filter(pred, h), the promise of an invocation whose pre-filter value
\* fails pred is never settled, whatever other invocations of p do.
C11_SuppressedNeverSettles ==
    prog \in FilterProgs =>
        \A k \in Invocations : Suppressed(k) => promises[k].st = "pending"

\* C12 (as claimed): the handle returned by use can be extended and the
\* original regards the extension.  With n = p.use(a) and n.use(b), an
\* invocation of p with x runs a and then b, and resolves with b's output
\* computed from a's effective output.  Stated for the runs with a single
\* invocation.
C12_ExtensionRegarded ==
    (prog = "useUse" /\ ~Building /\ Len(promises) = 1
        /\ Returns("f") /\ Returns("a") /\ Returns("b")) =>
        /\ \A i \in At(1, "call", StageOf("b")) : Dones(1, "a") = 1
        /\ Resolved(1) =>
               promises[1].val = Eff("b", Eff("a", Eff("f", promises[1].x)))

\* C13 (as claimed): the exposed exit pointer.  After any sequence of use
\* and filter calls, the `last` property a composed middleware exposes is
\* the exit its invocations wait on (the stage of the last middleware
\* attached).
C13_ExposedExit ==
    (prog \in {"fork", "filter", "filterPos", "catchUse", "catchFilter", "useUse"}
        /\ handles # <<>>) =>
        pipes[Root].xlast = pipes[Root].last

\* The programs that attach h with intercept, and the stages of the
\* intercepted system: every stage but h and the effects wrapped around
\* step events.
IcptProgs == {"icpt", "icptNested"}
IcptStages == {s \in StageIds : stages[s].kind # "wrap" /\ stages[s].label # "h"}

\* The effective outputs of the stages of the system that completed in
\* invocation k, and the arguments h was triggered with in it, in order.
StepOutputs(k) ==
    LET d == SelectSeq(hist[k], LAMBDA e : e.t = "done" /\ e.id \in IcptStages)
    IN [i \in 1..Len(d) |-> EffectiveOutput(d[i].a, d[i].r)]
IcptArgs(k) ==
    LET c == SelectSeq(hist[k], LAMBDA e : e.t = "call" /\ stages[e.id].label = "h")
    IN [i \in 1..Len(c) |-> c[i].a]

\* C14 (as claimed): intercept coverage.  A pipeline attached with
\* p.intercept(h) is triggered exactly once for every successful stage
\* completion anywhere in p's system (stages listed at compose time, nested
\* pipelines, stages attached later), with that stage's effective output.
C14_InterceptCoverage ==
    (prog \in IcptProgs /\ ~Building) =>
        \A k \in Invocations : IcptArgs(k) = StepOutputs(k)

\* C15 (as claimed): in p.use(a); p.fork(b); p.use(c), in every invocation
\* b and c start only after a has completed successfully, each is
\* triggered exactly once with a's effective output, and neither waits for
\* the other (both are triggered as soon as a has completed).
C15_ForkAndUseAfter ==
    (prog = "fork" /\ ~Building) =>
        \A k \in Invocations :
            /\ At(k, "done", StageOf("a")) = {} =>
                   Calls(k, "b") = 0 /\ Calls(k, "c") = 0
            /\ \A i \in At(k, "done", StageOf("a")) :
                   /\ Calls(k, "b") = 1 /\ Calls(k, "c") = 1
                   /\ \A j \in At(k, "call", StageOf("b")) \cup At(k, "call", StageOf("c")) :
                          hist[k][j].a = EffectiveOutput(hist[k][i].a, hist[k][i].r)

\* The calls of the program already made that are fork or forkFilter.
ForkCalls ==
    {i \in 1..Len(handles) : Program(prog)[i].op \in {"fork", "forkFilter"}}

\* C16 (as claimed): fork and forkFilter return the current composed
\* middleware, untouched: the returned handle has the entry and the exit of
\* the pipeline the call was made on.
C16_ForkReturnsCurrent ==
    \A i \in ForkCalls :
        LET p == handles[Program(prog)[i].h]
            r == handles[i]
        IN /\ pipes[r].first = pipes[p].first
           /\ pipes[r].last = pipes[p].last

\* C17 (as claimed): branch extends the pipeline.  After
\* p.branch(pred, m, n) an invocation of p resolves with the output of m
\* applied to the pre-branch value (the value the branch received) when pred
\* holds on it, and with the output of n applied to it otherwise; it is
\* resolved once the chosen side has completed.  Stated for the runs with a
\* single invocation.
C17_BranchExtends ==
    (prog \in BranchProgs /\ ~Building /\ Len(promises) = 1
        /\ Returns("m") /\ Returns("n")) =>
        \A i \in At(1, "call", StageOf("dispatch")) :
            LET v == hist[1][i].a
                side == IF ComposeFilter(<<"odd">>, v) THEN "m" ELSE "n"
            IN /\ Resolved(1) => promises[1].val = Eff(side, v)
               /\ Dones(1, side) > 0 => Resolved(1)

\* C18 (as claimed): split routes the result of the current last
\* middleware.  After p.use(a), p.split(pred, m, n) makes every invocation
\* of p deliver a's effective output to exactly one of m (pred true) and n
\* (pred false), and nothing before a has completed; p's exit stays a.
C18_SplitRoutesExit ==
    (prog = "split" /\ ~Building) =>
        /\ pipes[Root].last = StageOf("a")
        /\ \A k \in Invocations :
               /\ At(k, "done", StageOf("a")) = {} =>
                      Calls(k, "m") + Calls(k, "n") = 0
               /\ \A i \in At(k, "done", StageOf("a")) :
                      LET v == EffectiveOutput(hist[k][i].a, hist[k][i].r)
                      IN /\ Calls(k, "m") + Calls(k, "n") = 1
                         /\ Calls(k, "m") = 1 <=> ComposeFilter(<<"odd">>, v)
                         /\ \A j \in At(k, "call", StageOf("m"))
                                       \cup At(k, "call", StageOf("n")) :
                                hist[k][j].a = v

\* C19: compose() with an empty list is a no-op pass-through.  It has a
\* single stage, a pass stage that is both its entry and its exit; every
\* invocation with an input x is resolved with x; and when it is extended
\* with a, a receives exactly the input of the invocation.
C19_EmptyIsPassThrough ==
    (prog \in EmptyProgs /\ handles # <<>>) =>
        /\ stages[pipes[handles[1]].first].kind = "pass"
        /\ prog = "empty" =>
               /\ Len(stages) = 1
               /\ pipes[Root].first = pipes[Root].last
               /\ pipes[Root].xlast = pipes[Root].first
               /\ \A k \in Invocations :
                      Resolved(k) /\ promises[k].val = promises[k].x
        /\ prog = "emptyUse" =>
               \A k \in Invocations :
                   \A i \in DOMAIN hist[k] :
                       (hist[k][i].t = "call" /\ stages[hist[k][i].id].kind = "fn")
                           => hist[k][i].a = promises[k].x

\* compose() has been invoked twice, once with 0 and once with another input.
C19_Witness ==
    /\ prog = "empty"
    /\ \E k \in Invocations : promises[k].x = 0 /\ promises[k].val = 0
    /\ \E k \in Invocations : promises[k].x > 0 /\ promises[k].val = promises[k].x

Answers(k) == {i \in DOMAIN hist[k] : hist[k][i].t = "answer"}
ControllerDone == \E k \in Invocations : \E i \in DOMAIN hist[k] :
                      hist[k][i].t = "done" /\ stages[hist[k][i].id].kind = "controller"

RECURSIVE FullTemplate(_)
FullTemplate(k) ==
    IF k = 0 THEN <<>>
    ELSE TrimEnd(FullTemplate(Regs(prog)[k].parent)) \o Regs(prog)[k].template
CallsOf(q, kind, tag) ==
    {j \in DOMAIN q.calls : /\ stages[q.calls[j].id].kind = kind
                            /\ stages[q.calls[j].id].label = tag}

DecoratorKinds(o) ==
    IF o.op = "route"
    THEN {"routeMethodDecorator", "routePathDecorator", "routeParamsDecorator"}
    ELSE {"routePathDecorator"}

C24_QueueBound == Cardinality(queue.inflight) <= QueueN

\* QueueN executions are in flight while another input is kept pending.
C24_Witness ==
    /\ Cardinality(queue.inflight) = QueueN
    /\ queue.pending # {}
    /\ queue.arrived > QueueN

\* C25: throttle spacing.  Any two successive admissions of worker are at
\* least ThrottleT time units apart, and at most one execution of worker is
\* admitted at a time.
C25_ThrottleSpacing ==
    /\ \A j \in 2..Len(throttle.admits) :
           throttle.admits[j] - throttle.admits[j - 1] >= ThrottleT
    /\ Cardinality(throttle.inflight) <= 1

\* Several inputs arrived at time 0; the second was admitted exactly
\* ThrottleT after the first while a third one was still pending.
C25_Witness ==
    /\ Len(throttle.admits) = 2
    /\ throttle.admits[1] = 0
    /\ throttle.admits[2] = ThrottleT
    /\ throttle.pending # {}

\* C26 (as claimed): independent invocations.  For any number of
\* overlapping or successive invocations of compose(f, g), the promise of
\* each invocation resolves with the effective output computed from its own
\* input.  Stated for the invocations on whose own chain no stage returns
\* the falsy context 0, whose result extractContext would replace.
C26_IndependentInvocations ==
    (prog = "seq" /\ Returns("f") /\ Returns("g")) =>
        \A k \in Invocations :
            LET x == promises[k].x
                y == Eff("f", x)
            IN (Resolved(k) /\ F("f", x) # 0 /\ F("g", y) # 0)
                   => promises[k].val = Eff("g", y)

\* The completions of the stages of the pipeline in invocation k and the
\* firings of the step signal of the pipeline in it, each in order of
\* occurrence.
DoneSeq(k) ==
    SelectSeq(hist[k], LAMBDA e : /\ e.t = "done" /\ e.id \in SystemStages
                                  /\ stages[e.id].label # "h")
StepSeq(k) ==
    SelectSeq(hist[k], LAMBDA e : e.t = "ev" /\ e.id = pipes[Root].step)
NoFailure(k) == \A i \in 1..Len(hist[k]) : hist[k][i].t # "fail"

\* C27 (as claimed): step ordering.  Within one invocation whose stages all
\* succeed, step fires once per stage completion and in the order in which
\* the stages complete, the stages of a nested pipeline included: the j-th
\* firing of step carries the context step is given for the j-th
\* completion, and no completion is left without its firing.
C27_StepOrdering ==
    (prog \in {"seq", "icptNested", "nestSync"} /\ ~Building) =>
        \A k \in Invocations :
            NoFailure(k) =>
                /\ Len(StepSeq(k)) = Len(DoneSeq(k))
                /\ \A j \in 1..Len(StepSeq(k)) :
                       StepSeq(k)[j].a = ExtractContext(DoneSeq(k)[j].a, DoneSeq(k)[j].r)

\* A step leaves the entry of every pipeline alone, and its exit too unless
\* it is a call of one of the combinators ops.
ExitFrame(ops) ==
    IF Building
    THEN \A p \in DOMAIN pipes :
             /\ pipes'[p].first = pipes[p].first
             /\ CurOp.op \notin ops => pipes'[p].last = pipes[p].last
    ELSE pipes' = pipes

\* C28 (as claimed): exit-pointer frame.  No combinator changes the entry
\* of the pipeline, and no combinator but use and filter reassigns its exit.
C28_ExitFrameAsClaimed == [][ExitFrame({"use", "filter"})]_vars

\* C28 (amended): exit-pointer frame.  No combinator changes the entry of
\* the pipeline; fork, forkFilter, split, intercept, on, when and catch
\* never reassign its exit; use, filter and branch do.
C28_ExitFrame == [][ExitFrame({"use", "filter", "branch"})]_vars

\* After p.use(a) and p.fork(b) the exit of p is still a, and the entry is
\* the stage p was built with.
C28_Witness ==
    /\ prog = "fork" /\ pc = 4
    /\ stages[pipes[Root].last].label = "a"
    /\ stages[pipes[Root].first].kind = "pass"

\* C29 (as claimed): nesting an extended pipeline links from its current
\* exit.  With p = compose(f) extended by p.use(a) and then nested as
\* compose(p, c), or by q.use(p) followed by q.use(c), c is triggered only
\* by a completion of a and with a's effective output, and exactly once per
\* invocation in which a completed.
C29_NestedExtendedExit ==
    (prog \in {"nestExt", "useNest"} /\ ~Building) =>
        \A k \in Invocations :
            /\ \A i \in At(k, "call", StageOf("c")) :
                   \E j \in At(k, "done", StageOf("a")) :
                       /\ j < i
                       /\ hist[k][i].a = EffectiveOutput(hist[k][j].a, hist[k][j].r)
            /\ Dones(k, "a") = 1 => Calls(k, "c") = 1

\* What invocation k shows of the user functions: their calls, completions
\* and failures in order of occurrence, by label.
Shown(e) == [t |-> e.t, l |-> stages[e.id].label, a |-> e.a, r |-> e.r]
FnHistory(k) ==
    LET es == SelectSeq(hist[k], LAMBDA e : /\ e.t \in {"call", "done", "fail"}
                                            /\ stages[e.id].kind = "fn")
    IN [i \in 1..Len(es) |-> Shown(es[i])]

\* What compose(a, b, c) shows when invoked with x and left to finish: each
\* function is called with what extractContext makes of the completion of
\* the one before it, until one fails.
RECURSIVE ChainHistory(_, _)
ChainHistory(ls, v) ==
    IF ls = <<>> THEN <<>>
    ELSE LET l == Head(ls)
             call == [t |-> "call", l |-> l, a |-> v, r |-> Undef]
         IN IF Throws(beh[l], v)
            THEN <<call, [t |-> "fail", l |-> l, a |-> FailPayload(v, 1), r |-> Undef]>>
            ELSE <<call, [t |-> "done", l |-> l, a |-> v, r |-> F(l, v)]>>
                     \o ChainHistory(Tail(ls), ExtractContext(v, F(l, v)))

IsPrefix(s, t) == Len(s) <= Len(t) /\ SubSeq(t, 1, Len(s)) = s
\* C30: nesting is transparent.  compose(compose(a, b), c),
\* compose(a, compose(b, c)) and compose(a, [b, c]) show what
\* compose(a, b, c) shows: in every invocation the same functions are called
\* in the same order with the same contexts, and an invocation that is alone
\* resolves exactly when c has completed, with the same result.
C30_NestingTransparent ==
    (prog \in NestShapes /\ ~Building) =>
        \A k \in Invocations :
            LET expected == ChainHistory(<<"a", "b", "c">>, promises[k].x)
            IN /\ IsPrefix(FnHistory(k), expected)
               /\ Quiescent(k) => FnHistory(k) = expected
               /\ Len(promises) = 1 =>
                      /\ Resolved(k) <=> Dones(k, "c") = 1
                      /\ Resolved(k) =>
                             promises[k].val =
                                 ExtractContext(expected[Len(expected)].a,
                                                expected[Len(expected)].r)

\* compose(compose(a, b), c) has been invoked, a, b and c have run in turn
\* and the invocation is resolved.
C30_Witness ==
    /\ prog = "nestLeft" /\ ~Building
    /\ \E k \in Invocations :
           /\ Resolved(k)
           /\ Len(FnHistory(k)) = 6
           /\ FnHistory(k)[6].t = "done" /\ FnHistory(k)[6].l = "c"

\* The firings of the events passes and ends of the invoked pipeline in
\* invocation k: passes = last.map(params => params) fires with the params
\* of every call of the effect it was derived from, ends =
\* last.done.map(extractContext) with extractContext of its every done.
PassesFirings(k) ==
    LET es == SelectSeq(hist[k], LAMBDA e : e.t = "call" /\ e.id = pipes[Root].passes)
    IN [i \in 1..Len(es) |-> es[i].a]
EndsFirings(k) ==
    LET es == SelectSeq(hist[k], LAMBDA e : e.t = "done" /\ e.id = pipes[Root].ends)
    IN [i \in 1..Len(es) |-> ExtractContext(es[i].a, es[i].r)]
ExitTriggers(k) ==
    LET es == SelectSeq(hist[k], LAMBDA e : e.t = "call" /\ e.id = pipes[Root].last)
    IN [i \in 1..Len(es) |-> es[i].a]
ExitCompletions(k) ==
    LET es == SelectSeq(hist[k], LAMBDA e : e.t = "done" /\ e.id = pipes[Root].last)
    IN [i \in 1..Len(es) |-> EffectiveOutput(es[i].a, es[i].r)]

\* C31 (as claimed): ends fires exactly when the current exit stage of the
\* pipeline completes successfully, with its effective output, and passes
\* exactly when the current exit stage is triggered, also after the
\* pipeline has been extended by use or filter.
C31_PassesEnds ==
    (prog \in {"seq", "catchUse", "filter", "useUse"} /\ ~Building) =>
        \A k \in Invocations :
            /\ PassesFirings(k) = ExitTriggers(k)
            /\ EndsFirings(k) = ExitCompletions(k)

OnPreds == Program(prog)[2].preds

\* C32: on reacts to invocations, not completions.  For p.on(pred, m), in
\* every invocation m is triggered exactly once, with the invocation's
\* input, as soon as the entry stage of p is triggered with an input that
\* satisfies pred, whatever the later stages of p do, and never for an
\* input that fails pred.
C32_OnReactsToInvocations ==
    (prog \in OnProgs /\ ~Building) =>
        \A k \in Invocations :
            /\ Calls(k, "f") = 1
            /\ IF ComposeFilter(OnPreds, promises[k].x)
               THEN /\ Calls(k, "m") = 1
                    /\ \A i \in At(k, "call", StageOf("m")) : hist[k][i].a = promises[k].x
               ELSE Calls(k, "m") = 0

\* The entry stage failed in an invocation whose input satisfies pred, and
\* m has been triggered once all the same.
C32_Witness ==
    /\ prog = "on" /\ ~Building
    /\ \E k \in Invocations :
           /\ ComposeFilter(OnPreds, promises[k].x)
           /\ Fails(k, "f") = 1
           /\ Calls(k, "m") = 1

\* C33 (as claimed): forkEach creates one independent branch per listed
\* unit.  For p = compose(s) and p.forkEach(b, c), in every invocation b and
\* c are each triggered exactly once when the exit s has completed, with its
\* effective output, whatever the other does; the exit of p stays s, and an
\* invocation that is alone resolves with the effective output of s.
C33_ForkEach ==
    (prog \in ForkEachProgs /\ ~Building) =>
        /\ pipes[Root].last = StageOf("s")
        /\ \A k \in Invocations :
               /\ Calls(k, "b") = Dones(k, "s") /\ Calls(k, "c") = Dones(k, "s")
               /\ \A i \in At(k, "done", StageOf("s")) :
                      \A l \in {"b", "c"} : \A j \in At(k, "call", StageOf(l)) :
                          hist[k][j].a = EffectiveOutput(hist[k][i].a, hist[k][i].r)
               /\ (Len(promises) = 1 /\ Resolved(k)) =>
                      promises[k].val = Eff("s", promises[k].x)

\* Stages wrapped from a function by toEffect, and the calls of stage s in
\* invocation k whose function has not settled yet.
WrappedStages == {s \in StageIds : stages[s].kind \in {"fn", "sync"}}
Unsettled(k, s) == {e \in running : e.inv = k /\ e.s = s}

\* C34: every call of a stage wrapped from a function fires exactly one of
\* its completion and failure signals once the function has settled, never
\* both: in each invocation the calls of the stage are its completions plus
\* its failures plus the calls still unsettled; a completion carries the
\* value the function returned and happens only if it did not throw, a
\* failure happens only if it threw.
C34_ExactlyOneSignal ==
    \A k \in Invocations : \A s \in WrappedStages :
        /\ Cardinality(At(k, "call", s)) =
               Cardinality(At(k, "done", s)) + Cardinality(At(k, "fail", s))
               + Cardinality(Unsettled(k, s))
        /\ \A i \in At(k, "done", s) :
               /\ ~Throws(beh[stages[s].label], hist[k][i].a)
               /\ hist[k][i].r = Apply(beh[stages[s].label], hist[k][i].a)
        /\ \A i \in At(k, "fail", s) :
               Throws(beh[stages[s].label], FailParams(hist[k][i].a))

\* An invocation in which one wrapped stage has completed, another has
\* failed, and nothing is left unsettled.
C34_Witness ==
    \E k \in Invocations : \E s, t \in WrappedStages :
        /\ Quiescent(k)
        /\ Cardinality(At(k, "done", s)) = 1 /\ Cardinality(At(k, "fail", s)) = 0
        /\ Cardinality(At(k, "fail", t)) = 1 /\ Cardinality(At(k, "done", t)) = 0

\* C35 (as claimed): the handlers of a route read req.params extracted from
\* the path template of their own route: in every request, whenever a
\* handler of a registered route is called, req.params is the match of the
\* route's full template against the URL of the request, whatever the
\* parameter decorators of sibling routes have written.
C35_OwnParams ==
    (prog \in SiblingProgs /\ ~Building) =>
        \A n \in DOMAIN reqs : \A k \in DOMAIN Regs(prog) :
            \A j \in CallsOf(reqs[n], "handler", Regs(prog)[k].tag) :
                reqs[n].calls[j].params = MatchParams(FullTemplate(k), reqs[n].url)

\* The stages of the pipelines attached through intercept, when, on or
\* catch in the lifecycle programs, and the calls made in invocation k.
LifecycleHandlers == {s \in StageIds : stages[s].label \in {"h", "logger", "m", "n"}}
CallsIn(k) == {i \in 1..Len(hist[k]) : hist[k][i].t = "call"}

\* C36: lifecycle handlers do not feed back.  For p = compose(f) with
\* handlers attached through intercept, when, on and catch, in every
\* invocation the step signal of p fires exactly once per completion of f
\* and its fail signal exactly once per failure of f, however many handlers
\* have completed or failed; f is executed once and every handler at most
\* once, so the stage executions of an invocation are at most the stages.
C36_NoFeedback ==
    (prog \in LifecycleProgs /\ ~Building) =>
        \A k \in Invocations :
            /\ Cardinality(EventAt(k, pipes[Root].step)) = Dones(k, "f")
            /\ Cardinality(EventAt(k, pipes[Root].fail)) = Fails(k, "f")
            /\ Calls(k, "f") = 1
            /\ \A s \in LifecycleHandlers : Cardinality(At(k, "call", s)) <= 1
            /\ Cardinality(CallsIn(k)) <= Cardinality(StageIds)

\* An invocation at rest in which f and the handler triggered by its step
\* signal have both completed and the handler attached with on has failed.
C36_Witness ==
    /\ prog = "onSyncWhen"
    /\ \E k \in Invocations :
           /\ Quiescent(k) /\ Dones(k, "f") = 1
           /\ Dones(k, "n") = 1 /\ Fails(k, "m") = 1
           /\ Cardinality(EventAt(k, pipes[Root].step)) = 1

\* The graph that p = compose(a); p.apply(preset); p.use(m) builds.
ApplyThenUse(c) ==
    ForwardG(ApplyG(c, c.ret, <<PresetFork(<<SyncFn("b")>>)>>).g, c.ret, <<Fn("m")>>, TRUE).g
PresetReference ==
    ApplyThenUse(ComposeG([stages |-> <<>>, pipes |-> <<>>, links |-> <<>>, nev |-> 0],
                          <<Fn("a")>>))

\* C37: within one use call the presets are applied before the other
\* middlewares are attached, whatever the argument order.  p.use(m, preset)
\* and p.use(preset, m) build the very graph that p.apply(preset) followed
\* by p.use(m) builds; the branch b the preset forks is linked to the exit
\* as it was before the call: in every invocation b and m are each
\* triggered once per completion of a, with the same value, b whether or
\* not m has completed, and the exit is m.
C37_PresetsFirst ==
    (prog \in PresetProgs /\ ~Building) =>
        /\ G = PresetReference
        /\ pipes[Root].last = StageOf("m")
        /\ \A k \in Invocations :
               /\ Calls(k, "b") = Dones(k, "a") /\ Calls(k, "m") = Dones(k, "a")
               /\ \A i \in At(k, "call", StageOf("b")) :
                      \A j \in At(k, "call", StageOf("m")) : hist[k][i].a = hist[k][j].a

\* p.use(m, preset) was invoked, a has completed and so has called both b
\* and m, and m has not settled.
C37_Witness ==
    /\ prog = "usePresetLast"
    /\ \E k \in Invocations :
           /\ Dones(k, "a") = 1 /\ Calls(k, "b") = 1 /\ Calls(k, "m") = 1
           /\ Dones(k, "m") = 0 /\ Fails(k, "m") = 0

\* The argument lists of composeFilter: up to MaxFilters arguments, each a
\* predicate or an array of predicates; and the predicates a list contains.
FilterArgs == {FilterFn("odd"), FilterFn("pos"), FilterArray(<<>>),
               FilterArray(<<"odd", "pos">>)}
FilterLists == UNION {[1..n -> FilterArgs] : n \in 0..MaxFilters}
NamesIn(filters) == UNION {{filters[i].fs[j] : j \in 1..Len(filters[i].fs)} :
                               i \in 1..Len(filters)}

\* The predicates of the gate of the program, the value that reaches the
\* gate in invocation k, and whether a value has reached it.
GatePreds == Program(prog)[2].preds
GateOp == Program(prog)[2].op
GateValue(k) ==
    IF GateOp = "on" THEN promises[k].x
    ELSE ExtractContext(promises[k].x, F("s", promises[k].x))
GateReached(k) == GateOp = "on" \/ Dones(k, "s") = 1

\* C38: composeFilter(f1, ..., fn)(x) is true exactly when every fi(x) is
\* true, arrays among the arguments counting for their elements and the
\* empty list giving true; and the handler that filter, forkFilter, branch,
\* split, on or when attaches behind a list of predicates is triggered, once,
\* exactly in the invocations whose value at the gate satisfies every
\* predicate of the list.
C38_ComposeFilter ==
    prog \in GateProgs =>
        /\ Building =>
               \A filters \in FilterLists : \A x \in Val :
                   ComposeFilterOf(filters, x) <=> \A name \in NamesIn(filters) : Pred(name, x)
        /\ ~Building =>
               \A k \in Invocations :
                   Calls(k, "h") =
                       IF GateReached(k) /\ \A i \in 1..Len(GatePreds) :
                                                Pred(GatePreds[i], GateValue(k))
                       THEN 1 ELSE 0

\* The value 2 reached the gate [odd, pos] of filter and the handler was not
\* triggered although 2 is positive; in another invocation 1 reached it and
\* the handler was triggered.
C38_Witness ==
    /\ prog = "gateFilter"
    /\ \E k, j \in Invocations :
           /\ GateReached(k) /\ GateValue(k) = 2 /\ Calls(k, "h") = 0
           /\ GateReached(j) /\ GateValue(j) = 1 /\ Calls(j, "h") = 1

====
